---------------------------- MODULE Spec2Model ----------------------------
(***************************************************************************)
(* A model of the question-answering core of AI-Digest-Agent: the search   *)
(* aggregator (core/search.py), the answer synthesizer (core/synth.py),    *)
(* the answer validator (core/validate.py), the playbook curator           *)
(* (ace/curator.py over ace/playbook_store.py) and the pipeline            *)
(* orchestrator (core/pipeline.py).                                        *)
(*                                                                         *)
(* Every component has its own variables and its own specification         *)
(* (SpecSearch, SpecSynth, SpecValidate, SpecCurator, SpecPipeline); the   *)
(* variables of the other components stay at their idle values.            *)
(* SpecCuratorTwice and SpecCuratorExample are the curator over other      *)
(* inputs: with the ids of the previous call remembered, and over a store  *)
(* that holds an item.                                                     *)
(***************************************************************************)
EXTENDS Integers, Sequences, FiniteSets, TLC

VARIABLES
    \* ---- SearchService.batch_search (core/search.py)
    s_pc,           \* "searching" | "returned" | "raised" ("idle": no call)
    top_k,          \* the call's top_k
    seen_urls,      \* the dict seen_urls, as its values in insertion order
    max_provided,   \* history: per URL, the highest score the provider returned (-1: none)
    replaced_urls,  \* history: the URLs whose entry a higher-scored result replaced
    search_out,     \* the returned list
    \* ---- Curator.merge over PlaybookStore (ace/curator.py, ace/playbook_store.py)
    c_pc,           \* "idle" (between calls) | "merging" ("off": no curator)
    store,          \* the rows of playbook_items, in rowid order
    store0,         \* history: the rows when the running merge call began
    existing,       \* merge's local list existing
    merged,         \* merge's local list merged (its return value)
    log,            \* history: the deltas of this call so far, each with its fate
    prev,           \* history: the ids of the deltas the previous merge call was given
    \* ---- Synthesizer.synthesize (core/synth.py)
    y_pc,           \* "start" | "initial" | "refine" | "parse" | "done" | "raised" ("off": no call)
    chunk_list,     \* the ranked chunks, each by its url
    citations,      \* the dict citations, as its keys (urls) in insertion order
    refined,        \* the refined text, as its lines
    used_fallback,  \* history: the bullets came from _fallback_bullets
    \* ---- validate_answer (core/validate.py)
    v_pc,           \* "ready" | "validated" ("off": no call)
    answer,         \* the AnswerResponse: bullets and sources
    report,         \* the ValidationReport
    \* ---- Pipeline.run (core/pipeline.py)
    p_pc,           \* the stage to run next, "DONE" or "FAILED" ("off": no run)
    trace,          \* history: the stages started so far
    max_sources,    \* request.max_sources
    search_queries, \* the number of search queries of the plan
    search_results, \* the number of search results
    documents,      \* per document, whether its text holds a word
    chunks,         \* the number of chunks
    ranked_chunks,  \* the number of ranked chunks
    run_result,     \* what run returned: answer and telemetry, or nothing
    \* ---- Pipeline._fetch_and_parse (core/pipeline.py)
    a_pc,           \* "running" | "returned" ("off": no call)
    a_results,      \* the search results, each by its snippet
    a_tasks,        \* per result, the fetch_single coroutine: where it is, the
                    \* attempts made, its document; history: the last attempt's outcome
    a_completed,    \* the coroutines that are done and not yet collected, in
                    \* completion order
    a_documents,    \* the local list documents
    \* ---- the answer operation (app/api.py)
    api_pc,         \* "generator" | "critique" | "merge" | "responded" ("off": no request)
    api_raised,     \* history: the call whose exception ended the request ("none": none)
    api_response,   \* "none" | "answer" | "http_500"
    \* ---- the reflector (ace/reflector.py)
    r_pc,           \* "critique" | "returned" | "raised" ("off": no call)
    metadata,       \* the run metadata critique is called with
    r_deltas,       \* the deltas critique returned
    \* ---- the retriever (core/rank.py)
    k_pc,           \* "rank" | "returned" ("off": no call)
    retriever,      \* which of the embedding and rerank models are loaded
    query,          \* the terms of the query
    chunks_list,    \* the chunks rank is called with
    rank_top_k,     \* the top_k rank is called with
    scored,         \* history: the stage-A list, (chunk, score) as [key, val]
    top_chunks,     \* the chunks rank returned
    \* ---- the playbook rewrite (core/planner.py: _apply_playbook)
    ap_pc,          \* "apply" | "returned" ("off": no call)
    ap_args,        \* the arguments of the call
    ap_rewrite,     \* the rewrite returned ("none": None)
    \* ---- the planner (core/planner.py: Planner.plan)
    pl_pc,          \* per process run: "plan" | "returned" ("off": no call)
    pl_request,     \* question, sub-tasks, hints and sources configuration
    hash_order,     \* history: per process run, its iteration order of sets
    plan_steps,     \* per process run, the steps plan returned
    \* ---- two merge calls on one store (ace/curator.py, ace/playbook_store.py)
    w_pc,           \* per call: "idle" | "merging" | "returned" ("off": no call)
    w_existing,     \* per call: its list existing
    w_count,        \* per call: the deltas it has gone through
    w_store,        \* the rows of the store both calls write to
    w_overlap,      \* history: one call read the store while the other was merging
    \* ---- answer requests in one event loop (app/api.py: answer)
    q_pc,           \* per request: an awaited stage | "critique" | "merge" | "merging" | "responded" ("off": none)
    q_running,      \* the request that holds the event loop, 0 when none does
    q_store,        \* the rows of the store
    q_deltas,       \* per request: the deltas critique returned
    q_existing,     \* per request: the list existing of its merge call
    q_merged,       \* per request: the list merged of its merge call
    q_done,         \* per request: the deltas its merge call has gone through
    q_calls,        \* history: per request, the calls answer has made
    q_run,          \* history: per request, "running" | "returned" | "raised" for its run
    q_response      \* per request: the ids of answer.metadata["ace"], or the error

search_vars == <<s_pc, top_k, seen_urls, max_provided, replaced_urls,
    search_out>>

curator_vars == <<c_pc, store, store0, existing, merged, log, prev>>

synth_vars == <<y_pc, chunk_list, citations, refined, used_fallback>>

validate_vars == <<v_pc, answer, report>>

pipeline_vars == <<p_pc, trace, max_sources, search_queries, search_results,
    documents, chunks, ranked_chunks, run_result>>

acquire_vars == <<a_pc, a_results, a_tasks, a_completed, a_documents>>

api_vars == <<api_pc, api_raised, api_response>>

reflect_vars == <<r_pc, metadata, r_deltas>>

rank_vars == <<k_pc, retriever, query, chunks_list, rank_top_k, scored,
    top_chunks>>

playbook_vars == <<ap_pc, ap_args, ap_rewrite>>

planner_vars == <<pl_pc, pl_request, hash_order, plan_steps>>

writers_vars == <<w_pc, w_existing, w_count, w_store, w_overlap>>

eventloop_vars == <<q_pc, q_running, q_store, q_deltas, q_existing, q_merged,
    q_done, q_calls, q_run, q_response>>

vars == <<search_vars, curator_vars, synth_vars, validate_vars,
          pipeline_vars, acquire_vars, api_vars, reflect_vars, rank_vars,
          playbook_vars, planner_vars, writers_vars, eventloop_vars>>

\* What an action of one component leaves alone.
SearchOnly ==
    UNCHANGED <<curator_vars, synth_vars, validate_vars, pipeline_vars,
                acquire_vars, api_vars, reflect_vars, rank_vars,
                playbook_vars, planner_vars, writers_vars, eventloop_vars>>

CuratorOnly ==
    UNCHANGED <<search_vars, synth_vars, validate_vars, pipeline_vars,
                acquire_vars, api_vars, reflect_vars, rank_vars,
                playbook_vars, planner_vars, writers_vars, eventloop_vars>>

SynthOnly ==
    UNCHANGED <<search_vars, curator_vars, pipeline_vars, acquire_vars,
                api_vars, reflect_vars, rank_vars, playbook_vars,
                planner_vars, writers_vars, eventloop_vars>>

ValidateOnly ==
    UNCHANGED <<search_vars, curator_vars, synth_vars, pipeline_vars,
                acquire_vars, api_vars, reflect_vars, rank_vars,
                playbook_vars, planner_vars, writers_vars, eventloop_vars>>

PipelineOnly ==
    UNCHANGED <<search_vars, curator_vars, synth_vars, validate_vars,
                acquire_vars, api_vars, reflect_vars, rank_vars,
                playbook_vars, planner_vars, writers_vars, eventloop_vars>>

AcquireOnly ==
    UNCHANGED <<search_vars, curator_vars, synth_vars, validate_vars,
                pipeline_vars, api_vars, reflect_vars, rank_vars,
                playbook_vars, planner_vars, writers_vars, eventloop_vars>>

ApiOnly ==
    UNCHANGED <<search_vars, curator_vars, synth_vars, validate_vars,
                pipeline_vars, acquire_vars, reflect_vars, rank_vars,
                playbook_vars, planner_vars, writers_vars, eventloop_vars>>

ReflectOnly ==
    UNCHANGED <<search_vars, curator_vars, synth_vars, validate_vars,
                pipeline_vars, acquire_vars, api_vars, rank_vars,
                playbook_vars, planner_vars, writers_vars, eventloop_vars>>

RankOnly ==
    UNCHANGED <<search_vars, curator_vars, synth_vars, validate_vars,
                pipeline_vars, acquire_vars, api_vars, reflect_vars,
                playbook_vars, planner_vars, writers_vars, eventloop_vars>>

PlaybookOnly ==
    UNCHANGED <<search_vars, curator_vars, synth_vars, validate_vars,
                pipeline_vars, acquire_vars, api_vars, reflect_vars,
                rank_vars, planner_vars, writers_vars, eventloop_vars>>

PlannerOnly ==
    UNCHANGED <<search_vars, curator_vars, synth_vars, validate_vars,
                pipeline_vars, acquire_vars, api_vars, reflect_vars,
                rank_vars, playbook_vars, writers_vars, eventloop_vars>>

WritersOnly ==
    UNCHANGED <<search_vars, curator_vars, synth_vars, validate_vars,
                pipeline_vars, acquire_vars, api_vars, reflect_vars,
                rank_vars, playbook_vars, planner_vars, eventloop_vars>>

EventLoopOnly ==
    UNCHANGED <<search_vars, curator_vars, synth_vars, validate_vars,
                pipeline_vars, acquire_vars, api_vars, reflect_vars,
                rank_vars, playbook_vars, planner_vars, writers_vars>>

--------------------------------------------------------------------------
(* Generic helpers *)

Max(a, b) == IF a >= b THEN a ELSE b

Min(a, b) == IF a <= b THEN a ELSE b

Range(seq) == {seq[i] : i \in 1..Len(seq)}

\* seq[:n] of Python for n >= 0
Take(seq, n) == SubSeq(seq, 1, Min(n, Len(seq)))

\* seq[1:] of Python (list.pop(0) leaves this)
Rest(seq) == SubSeq(seq, 2, Len(seq))

\* Insert entry x = [key, val] into a list sorted by descending key, after
\* every entry whose key is >= x.key: list.sort(reverse=True) is stable.
RECURSIVE InsertDesc(_, _)
InsertDesc(sorted, x) ==
    IF sorted = <<>> THEN <<x>>
    ELSE IF Head(sorted).key >= x.key
         THEN <<Head(sorted)>> \o InsertDesc(Tail(sorted), x)
         ELSE <<x>> \o sorted

\* Stable sort of [key, val] entries by descending key.
RECURSIVE SortDesc(_)
SortDesc(entries) ==
    IF entries = <<>> THEN <<>>
    ELSE InsertDesc(SortDesc(SubSeq(entries, 1, Len(entries) - 1)),
                    entries[Len(entries)])

--------------------------------------------------------------------------
(* core/search.py: SearchService *)

Urls == {"u1", "u2", "u3"}

SourceTypes == {"arxiv", "github", "news"}

MaxScore == 1

MaxTopK == 2

Scores == 0..MaxScore

SearchResult == [url : Urls, score : Scores, source_type : SourceTypes]

\* Position of the entry for url in the dict, 0 when absent (seen_urls.get(key)).
IndexOfUrl(seen, url) ==
    IF \E i \in 1..Len(seen) : seen[i].url = url
    THEN CHOOSE i \in 1..Len(seen) : seen[i].url = url
    ELSE 0

\* A mutation of SeenUpdate: the later result always replaces the earlier.
SeenUpdateKeepLast(seen, result) ==
    LET i == IndexOfUrl(seen, result.url) IN
    IF i = 0 THEN Append(seen, result) ELSE [seen EXCEPT ![i] = result]

\* One iteration of batch_search's inner loop with dedupe on: the dict keeps
\* a key's position when its value is replaced.
SeenUpdate(seen, result) ==
    LET i == IndexOfUrl(seen, result.url) IN
    IF i = 0 THEN Append(seen, result)
    ELSE IF result.score > seen[i].score
         THEN [seen EXCEPT ![i] = result]
         ELSE seen

\* The source types of results in first-occurrence order: the key order of
\* the dict built by buckets.setdefault(...).
RECURSIVE BucketKeys(_)
BucketKeys(results) ==
    IF results = <<>> THEN <<>>
    ELSE LET init == BucketKeys(SubSeq(results, 1, Len(results) - 1))
             st   == results[Len(results)].source_type
         IN  IF st \in Range(init) THEN init ELSE Append(init, st)

\* The results of one source type, in their order of arrival.
RECURSIVE OfType(_, _)
OfType(results, st) ==
    IF results = <<>> THEN <<>>
    ELSE IF Head(results).source_type = st
         THEN <<Head(results)>> \o OfType(Tail(results), st)
         ELSE OfType(Tail(results), st)

Unkey(entries) == [i \in 1..Len(entries) |-> entries[i].val]

SortByScoreDesc(results) ==
    Unkey(SortDesc([i \in 1..Len(results) |->
                        [key |-> results[i].score, val |-> results[i]]]))

\* buckets: one list per source type, each sorted by descending score.
Buckets(results) ==
    LET keys == BucketKeys(results) IN
    [i \in 1..Len(keys) |-> SortByScoreDesc(OfType(results, keys[i]))]

\* The bucket indexes in the order one round-robin pass visits them:
\* sorted(buckets.items(), key=head score or 0, reverse=True).
PassOrder(buckets) ==
    Unkey(SortDesc([i \in 1..Len(buckets) |->
             [key |-> IF buckets[i] # <<>> THEN buckets[i][1].score ELSE 0,
              val |-> i]]))

\* The for loop of one pass over the bucket indexes still to visit.
RECURSIVE RoundRobinPass(_, _, _, _, _)
RoundRobinPass(buckets, order, ordered, k, progressed) ==
    IF order = <<>>
    THEN [buckets |-> buckets, ordered |-> ordered, progressed |-> progressed]
    ELSE LET b == Head(order) IN
         IF buckets[b] = <<>>
         THEN RoundRobinPass(buckets, Tail(order), ordered, k, progressed)
         ELSE LET ordered2 == Append(ordered, buckets[b][1])
                  buckets2 == [buckets EXCEPT ![b] = Rest(@)]
              IN  IF Len(ordered2) >= k
                  THEN [buckets |-> buckets2, ordered |-> ordered2,
                        progressed |-> TRUE]
                  ELSE RoundRobinPass(buckets2, Tail(order), ordered2, k, TRUE)

\* while len(ordered) < top_k: one pass; stop when a pass adds nothing.
RECURSIVE RoundRobin(_, _, _)
RoundRobin(buckets, ordered, k) ==
    IF Len(ordered) >= k
    THEN [buckets |-> buckets, ordered |-> ordered]
    ELSE LET p == RoundRobinPass(buckets, PassOrder(buckets), ordered, k, FALSE)
         IN  IF ~p.progressed
             THEN [buckets |-> p.buckets, ordered |-> p.ordered]
             ELSE RoundRobin(p.buckets, p.ordered, k)

RECURSIVE Flatten(_)
Flatten(buckets) ==
    IF buckets = <<>> THEN <<>> ELSE Head(buckets) \o Flatten(Tail(buckets))

\* A mutation of LimitWithDiversity: the top_k best scores, whatever the source.
LimitByScoreOnly(results, k) ==
    IF Len(results) <= k THEN results
    ELSE Take(SortByScoreDesc(results), k)

\* Pop the head of the first bucket with the highest head score, k times or
\* until every bucket is empty.
RECURSIVE PopHighestHead(_, _, _)
PopHighestHead(buckets, ordered, k) ==
    IF Len(ordered) >= k \/ \A i \in 1..Len(buckets) : buckets[i] = <<>>
    THEN ordered
    ELSE LET b == CHOOSE i \in 1..Len(buckets) :
                    /\ buckets[i] # <<>>
                    /\ \A j \in 1..Len(buckets) :
                          buckets[j] # <<>> =>
                              \/ buckets[j][1].score < buckets[i][1].score
                              \/ buckets[j][1].score = buckets[i][1].score /\ i <= j
         IN  PopHighestHead([buckets EXCEPT ![b] = Rest(@)],
                            Append(ordered, buckets[b][1]), k)

\* A mutation of LimitWithDiversity: every pop takes the highest head.
LimitByHighestHead(results, k) ==
    IF Len(results) <= k THEN results
    ELSE PopHighestHead(Buckets(results), <<>>, k)

\* A mutation of LimitWithDiversity: a single round-robin pass, no top-off.
LimitOnePass(results, k) ==
    IF Len(results) <= k THEN results
    ELSE LET b == Buckets(results) IN
         Take(RoundRobinPass(b, PassOrder(b), <<>>, k, FALSE).ordered, k)

\* SearchService._limit_with_diversity
LimitWithDiversity(results, k) ==
    IF Len(results) <= k THEN results
    ELSE LET rr == RoundRobin(Buckets(results), <<>>, k) IN
         IF Len(rr.ordered) >= k THEN Take(rr.ordered, k)
         ELSE Take(rr.ordered \o SortByScoreDesc(Flatten(rr.buckets)), k)

SearchIdle ==
    /\ s_pc = "idle"
    /\ top_k = 0
    /\ seen_urls = <<>>
    /\ max_provided = [u \in Urls |-> -1]
    /\ replaced_urls = {}
    /\ search_out = <<>>

\* batch_search is called with top_k = request.max_sources >= 1.
SearchInit ==
    /\ s_pc = "searching"
    /\ top_k \in 1..MaxTopK
    /\ seen_urls = <<>>
    /\ max_provided = [u \in Urls |-> -1]
    /\ replaced_urls = {}
    /\ search_out = <<>>

\* The provider hands back one more result (of any query of the batch).
ProviderResult ==
    /\ s_pc = "searching"
    /\ \E result \in SearchResult :
         /\ seen_urls' = SeenUpdate(seen_urls, result)
         /\ max_provided' = [max_provided EXCEPT
                               ![result.url] = Max(@, result.score)]
         /\ replaced_urls' =
               IF /\ IndexOfUrl(seen_urls, result.url) # 0
                  /\ SeenUpdate(seen_urls, result) # seen_urls
               THEN replaced_urls \cup {result.url} ELSE replaced_urls
    /\ UNCHANGED <<s_pc, top_k, search_out>>
    /\ SearchOnly

\* provider.search raises (response.raise_for_status()): batch_search has no
\* handler, the exception leaves it.
ProviderRaises ==
    /\ s_pc = "searching"
    /\ s_pc' = "raised"
    /\ UNCHANGED <<top_k, seen_urls, max_provided, replaced_urls, search_out>>
    /\ SearchOnly

\* The queries are exhausted: deduped = list(seen_urls.values()), limited.
SearchReturn ==
    /\ s_pc = "searching"
    /\ search_out' = LimitWithDiversity(seen_urls, top_k)
    /\ s_pc' = "returned"
    /\ UNCHANGED <<top_k, seen_urls, max_provided, replaced_urls>>
    /\ SearchOnly

--------------------------------------------------------------------------
(* ace/schemas.py, ace/playbook_store.py, ace/curator.py *)

ItemIds == {"id1", "id2"}

ItemTypes == {"query_rewrite", "validation_rule"}

\* The contents the general specification draws from: the second shares 5
\* of 6 lower-cased words with the first, the third 4 of 5.
GeneralContents ==
    { "Use sort:recent for huggingface models",
      "USE SORT:RECENT for huggingface models now",
      "use sort:recent for huggingface" }

\* The contents the two-call specification draws from.
TwiceContents ==
    { "Use sort:recent for huggingface models",
      "USE SORT:RECENT for huggingface models now" }

\* The two contents of the documented near-duplicate example.
ExampleContents ==
    { "Use sort:recent for huggingface models",
      "use sort: recent for huggingface model" }

Helpfuls == {1}

MaxBatch == 3

\* The source types the Reflector's deltas are drawn for.
ReflectedTypes == {"arxiv", "news"}

\* uuid.uuid4().hex[:6]; two deltas can draw the same value.
HexSuffixes == {"a1b2c3", "d4e5f6"}

\* Reflector._check_freshness: the content of the delta of one stale type,
\* f"For {source_type.value} sources, add ... 'latest'."
FreshnessContent(source_type) ==
    CASE source_type = "arxiv" ->
            "For arxiv sources, add 'sort:recent' or date filters when question includes 'new' or 'latest'."
      [] source_type = "news" ->
            "For news sources, add 'sort:recent' or date filters when question includes 'new' or 'latest'."

\* Reflector._check_source_coverage: the content of the delta of one missing
\* type, f"When question mentions {source_type.value}, add ... queries."
CoverageContent(source_type) ==
    CASE source_type = "arxiv" ->
            "When question mentions arxiv, add explicit site filter for arxiv in the planner search queries."
      [] source_type = "news" ->
            "When question mentions news, add explicit site filter for news in the planner search queries."

\* str.split() on the contents above: the whitespace-separated tokens.
Split(content) ==
    CASE content = "Use sort:recent for huggingface models" ->
            <<"Use", "sort:recent", "for", "huggingface", "models">>
      [] content = "USE SORT:RECENT for huggingface models now" ->
            <<"USE", "SORT:RECENT", "for", "huggingface", "models", "now">>
      [] content = "use sort:recent for huggingface" ->
            <<"use", "sort:recent", "for", "huggingface">>
      [] content = "use sort: recent for huggingface model" ->
            <<"use", "sort:", "recent", "for", "huggingface", "model">>
      [] content = "For arxiv sources, add 'sort:recent' or date filters when question includes 'new' or 'latest'." ->
            <<"For", "arxiv", "sources,", "add", "'sort:recent'", "or", "date",
              "filters", "when", "question", "includes", "'new'", "or", "'latest'.">>
      [] content = "For news sources, add 'sort:recent' or date filters when question includes 'new' or 'latest'." ->
            <<"For", "news", "sources,", "add", "'sort:recent'", "or", "date",
              "filters", "when", "question", "includes", "'new'", "or", "'latest'.">>
      [] content = "When question mentions arxiv, add explicit site filter for arxiv in the planner search queries." ->
            <<"When", "question", "mentions", "arxiv,", "add", "explicit", "site",
              "filter", "for", "arxiv", "in", "the", "planner", "search", "queries.">>
      [] content = "When question mentions news, add explicit site filter for news in the planner search queries." ->
            <<"When", "question", "mentions", "news,", "add", "explicit", "site",
              "filter", "for", "news", "in", "the", "planner", "search", "queries.">>
      [] OTHER -> <<>>

\* str.lower() on the tokens above.
Lower(token) ==
    CASE token \in {"Use", "USE"} -> "use"
      [] token = "SORT:RECENT" -> "sort:recent"
      [] token = "For" -> "for"
      [] token = "When" -> "when"
      [] OTHER -> token

\* {token.lower() for token in a.split()}
TokenSet(content) == {Lower(Split(content)[i]) : i \in 1..Len(Split(content))}

\* Curator._content_similarity, as the exact fraction num/den (0.0 is 0/1).
ContentSimilarity(a, b) ==
    LET set_a == TokenSet(a)
        set_b == TokenSet(b)
    IN  IF set_a = {} \/ set_b = {}
        THEN [num |-> 0, den |-> 1]
        ELSE [num |-> Cardinality(set_a \cap set_b),
              den |-> Cardinality(set_a \cup set_b)]

\* A mutation of ExceedsThreshold: no similarity is over the threshold.
ExceedsThresholdNever(sim) == FALSE

\* A mutation of ExceedsThreshold: similarity > 0.9.
ExceedsThresholdNine(sim) == sim.num * 10 > sim.den * 9

\* similarity > 0.8 on the exact fraction (the float quotient of two small
\* integers compares with 0.8 as the fraction does with 4/5).
ExceedsThreshold(sim) == sim.num * 10 > sim.den * 8

\* A mutation of IsDuplicate: the content comparison is left out.
IsDuplicateIdOnly(candidate, items) ==
    \E i \in 1..Len(items) : items[i].id = candidate.id

\* A mutation of IsDuplicate: no delta is a duplicate.
IsDuplicateNever(candidate, items) == FALSE

\* A mutation of IsDuplicate: the id comparison is left out.
IsDuplicateContentOnly(candidate, items) ==
    \E i \in 1..Len(items) :
        /\ items[i].type = candidate.type
        /\ ExceedsThreshold(ContentSimilarity(items[i].content, candidate.content))

\* A mutation of IsDuplicate: >= 0.8 instead of > 0.8.
IsDuplicateAtThreshold(candidate, items) ==
    \E i \in 1..Len(items) :
        \/ items[i].id = candidate.id
        \/ /\ items[i].type = candidate.type
           /\ LET sim == ContentSimilarity(items[i].content, candidate.content)
              IN  sim.num * 10 >= sim.den * 8

\* Curator._is_duplicate: the loop returns True at the first item that matches.
IsDuplicate(candidate, items) ==
    \E i \in 1..Len(items) :
        \/ items[i].id = candidate.id
        \/ /\ items[i].type = candidate.type
           /\ ExceedsThreshold(ContentSimilarity(items[i].content, candidate.content))

RowIndex(rows, id) ==
    IF \E i \in 1..Len(rows) : rows[i].id = id
    THEN CHOOSE i \in 1..Len(rows) : rows[i].id = id
    ELSE 0

\* PlaybookStore.upsert_item: INSERT ... ON CONFLICT(id) DO UPDATE SET ...
Upsert(rows, item) ==
    LET i == RowIndex(rows, item.id) IN
    IF i = 0 THEN Append(rows, item) ELSE [rows EXCEPT ![i] = item]

\* PlaybookStore.list_items(): SELECT * ... ORDER BY helpful DESC.
ListItems(rows) ==
    Unkey(SortDesc([i \in 1..Len(rows) |->
                        [key |-> rows[i].helpful, val |-> rows[i]]]))

\* A mutation of LocalView: accepted items are not appended to existing.
LocalViewUnchanged(view, item) == view

\* existing.append(delta.item)
LocalView(view, item) == Append(view, item)

IdsOf(items) == {items[i].id : i \in 1..Len(items)}

CuratorIdle ==
    /\ c_pc = "off"
    /\ store = <<>>
    /\ store0 = <<>>
    /\ existing = <<>>
    /\ merged = <<>>
    /\ log = <<>>
    /\ prev = {}

\* A Curator over a newly created store.
CuratorInit ==
    /\ c_pc = "idle"
    /\ store = <<>>
    /\ store0 = <<>>
    /\ existing = <<>>
    /\ merged = <<>>
    /\ log = <<>>
    /\ prev = {}

\* A Curator over a store that holds the example's first item.
CuratorExampleInit ==
    /\ c_pc = "idle"
    /\ store = << [id |-> "id1", type |-> "query_rewrite",
                   content |-> "Use sort:recent for huggingface models",
                   helpful |-> 1] >>
    /\ store0 = <<>>
    /\ existing = <<>>
    /\ merged = <<>>
    /\ log = <<>>
    /\ prev = {}

\* merge(deltas) with an empty list: "if not deltas: return []".
MergeNothing ==
    /\ c_pc = "idle"
    /\ prev' = {}
    /\ UNCHANGED <<c_pc, store, store0, existing, merged, log>>
    /\ CuratorOnly

\* merge(deltas) with deltas: existing = self.store.list_items(); merged = [].
MergeBegin ==
    /\ c_pc = "idle"
    /\ c_pc' = "merging"
    /\ store0' = store
    /\ existing' = ListItems(store)
    /\ merged' = <<>>
    /\ log' = <<>>
    /\ UNCHANGED <<store, prev>>
    /\ CuratorOnly

\* One iteration of "for delta in deltas" with delta.item = item.
MergeDelta(item) ==
    /\ c_pc = "merging"
    /\ Len(log) < MaxBatch
    /\ IF IsDuplicate(item, existing)
       THEN /\ log' = Append(log, [item |-> item, accepted |-> FALSE])
            /\ UNCHANGED <<store, merged, existing>>
       ELSE /\ store' = Upsert(store, item)
            /\ merged' = Append(merged, item)
            /\ existing' = LocalView(existing, item)
            /\ log' = Append(log, [item |-> item, accepted |-> TRUE])
    /\ UNCHANGED <<c_pc, store0, prev>>
    /\ CuratorOnly

\* The loop is over (the list had at least one delta): merged, as it stands,
\* is returned and the call's locals are gone.
MergeReturnCore ==
    /\ c_pc = "merging"
    /\ Len(log) >= 1
    /\ c_pc' = "idle"
    /\ store0' = <<>>
    /\ existing' = <<>>
    /\ merged' = <<>>
    /\ log' = <<>>
    /\ UNCHANGED store
    /\ CuratorOnly

MergeReturn == MergeReturnCore /\ UNCHANGED prev

\* The same, remembering which ids this call was given.
MergeReturnRemember ==
    MergeReturnCore /\ prev' = {log[i].item.id : i \in 1..Len(log)}

PlaybookItem(contents) ==
    [id : ItemIds, type : ItemTypes, content : contents, helpful : Helpfuls]

MergeGeneralDelta == \E item \in PlaybookItem(GeneralContents) : MergeDelta(item)

MergeTwiceDelta == \E item \in PlaybookItem(TwiceContents) : MergeDelta(item)

MergeExampleDelta == \E item \in PlaybookItem(ExampleContents) : MergeDelta(item)

\* Deltas whose helpful counter differs from the stored item's: the default
\* of PlaybookItem.helpful is 0, the Reflector's deltas carry 1.
CountedItems ==
    [id : ItemIds, type : ItemTypes,
     content : {"Use sort:recent for huggingface models"}, helpful : {0, 1}]

MergeCountedDelta == \E item \in CountedItems : MergeDelta(item)

\* The items of the freshness deltas (helpful is the count of stale
\* citations of the type, here one) and of the coverage deltas of the
\* Reflector.
ReflectorItems ==
    { [id |-> "freshness:" \o t \o ":" \o h, type |-> "query_rewrite",
       content |-> FreshnessContent(t), helpful |-> count] :
          t \in ReflectedTypes, h \in HexSuffixes, count \in {1} }
    \cup
    { [id |-> "coverage:" \o t \o ":" \o h, type |-> "query_rewrite",
       content |-> CoverageContent(t), helpful |-> 1] :
          t \in ReflectedTypes, h \in HexSuffixes }

MergeReflectorDelta == \E item \in ReflectorItems : MergeDelta(item)
--------------------------------------------------------------------------
(* core/synth.py: Synthesizer *)

ChunkUrls == {"u1", "u2"}

MaxChunks == 3

MaxLines == 2

MaxLabel == 2

min_bullets == 3

max_bullets == 7

\* What _parse_bullets tells apart in a stripped line:
\*   "blank"   empty
\*   "sources" starts with "sources:" or is "sources" (case-insensitive)
\*   "marker"  starts with -, * or a bullet glyph, or matches ^\d+[).\s]
\*   "long"    none of these, longer than 20 characters, not ending in ":"
\*   "short"   none of these, at most 20 characters or ending in ":"
\* cites are the labels n of the line's "[n]" tokens, in order (0 and the
\* labels beyond the last citation are labels of no source).
LineKinds == {"blank", "sources", "marker", "long", "short"}

LineCites == {<<>>} \cup {<<n>> : n \in 0..MaxLabel}

Lines ==
    {[kind |-> "blank", cites |-> <<>>], [kind |-> "sources", cites |-> <<>>]}
    \cup [kind : {"marker", "long", "short"}, cites : LineCites]

SeqsUpTo(S, n) == UNION {[1..m -> S] : m \in 0..n}

\* Synthesizer._build_citations: one citation per distinct url, in first-seen
\* order; the label of citations[i] is str(i).
RECURSIVE BuildCitations(_)
BuildCitations(chunk_urls) ==
    IF chunk_urls = <<>> THEN <<>>
    ELSE LET init == BuildCitations(SubSeq(chunk_urls, 1, Len(chunk_urls) - 1))
             url  == chunk_urls[Len(chunk_urls)]
         IN  IF url \in Range(init) THEN init ELSE Append(init, url)

\* citations[url].label
LabelOf(cits, url) == CHOOSE i \in 1..Len(cits) : cits[i] = url

\* list(citations.values()), each Citation by its label and url.
Sources(cits) == [i \in 1..Len(cits) |-> [label |-> i, url |-> cits[i]]]

\* A mutation of ParseLines: any non-bullet line seeds the first bullet.
RECURSIVE ParseLinesSeedAny(_, _)
ParseLinesSeedAny(lines, bullet_lines) ==
    IF lines = <<>> THEN bullet_lines
    ELSE LET line == Head(lines) IN
         CASE line.kind = "blank" -> ParseLinesSeedAny(Tail(lines), bullet_lines)
           [] line.kind = "sources" -> bullet_lines
           [] line.kind = "marker" ->
                ParseLinesSeedAny(Tail(lines), Append(bullet_lines, line.cites))
           [] OTHER ->
                IF bullet_lines = <<>>
                THEN ParseLinesSeedAny(Tail(lines), <<line.cites>>)
                ELSE ParseLinesSeedAny(Tail(lines),
                        [bullet_lines EXCEPT ![Len(bullet_lines)] = @ \o line.cites])

\* The loop of _parse_bullets over the lines still to read; bullet_lines
\* holds, per bullet, the labels of the "[n]" tokens of its joined text.
RECURSIVE ParseLines(_, _)
ParseLines(lines, bullet_lines) ==
    IF lines = <<>> THEN bullet_lines
    ELSE LET line == Head(lines) IN
         CASE line.kind = "blank" -> ParseLines(Tail(lines), bullet_lines)
           [] line.kind = "sources" -> bullet_lines
           [] line.kind = "marker" ->
                ParseLines(Tail(lines), Append(bullet_lines, line.cites))
           [] OTHER ->
                IF bullet_lines = <<>>
                THEN IF line.kind = "long"
                     THEN ParseLines(Tail(lines), <<line.cites>>)
                     ELSE ParseLines(Tail(lines), bullet_lines)
                ELSE ParseLines(Tail(lines),
                        [bullet_lines EXCEPT ![Len(bullet_lines)] = @ \o line.cites])

\* Synthesizer._parse_bullets: citations = citation_pattern.findall(line).
ParseBullets(lines) ==
    LET bullet_lines == ParseLines(lines, <<>>) IN
    [i \in 1..Len(bullet_lines) |-> [citations |-> bullet_lines[i]]]

\* The loop of _fallback_bullets over the chunks still to visit.
RECURSIVE FallbackLoop(_, _, _, _, _)
FallbackLoop(chunk_urls, cits, seen, bullets, limit) ==
    IF chunk_urls = <<>> THEN bullets
    ELSE LET url == Head(chunk_urls) IN
         IF url \in seen
         THEN FallbackLoop(Tail(chunk_urls), cits, seen, bullets, limit)
         ELSE LET bullets2 == Append(bullets, [citations |-> <<LabelOf(cits, url)>>])
              IN  IF Len(bullets2) >= limit THEN bullets2
                  ELSE FallbackLoop(Tail(chunk_urls), cits, seen \cup {url},
                                    bullets2, limit)

\* A mutation of FallbackBullets: a bullet cites the rank of its chunk, not
\* the label of its chunk's citation.
RECURSIVE FallbackByRank(_, _)
FallbackByRank(chunk_urls, cits) ==
    IF chunk_urls = <<>> THEN <<>>
    ELSE LET init == SubSeq(chunk_urls, 1, Len(chunk_urls) - 1)
             url  == chunk_urls[Len(chunk_urls)]
         IN  IF url \in Range(init) THEN FallbackByRank(init, cits)
             ELSE Append(FallbackByRank(init, cits),
                         [citations |-> <<Len(chunk_urls)>>])

\* A mutation of FallbackBullets: the loop does not stop at the limit.
FallbackNoLimit(chunk_urls, cits) ==
    FallbackLoop(chunk_urls, cits, {}, <<>>, Len(chunk_urls) + 1)

\* Synthesizer._fallback_bullets
FallbackBullets(chunk_urls, cits) ==
    FallbackLoop(chunk_urls, cits, {}, <<>>,
                 Max(min_bullets, Min(max_bullets, Len(cits))))

NoAnswer == [bullets |-> <<>>, sources |-> <<>>]

NoReport == [passed |-> FALSE, coverage |-> [num |-> 0, den |-> 1], issues |-> <<>>]

SynthIdle ==
    /\ y_pc = "off"
    /\ chunk_list = <<>>
    /\ citations = <<>>
    /\ refined = <<>>
    /\ used_fallback = FALSE

\* synthesize is called with the ranked chunks.
SynthInit ==
    /\ y_pc = "start"
    /\ chunk_list \in SeqsUpTo(ChunkUrls, MaxChunks)
    /\ citations = <<>>
    /\ refined = <<>>
    /\ used_fallback = FALSE

\* No chunk: raise ValueError.
SynthNoChunks ==
    /\ y_pc = "start"
    /\ chunk_list = <<>>
    /\ y_pc' = "raised"
    /\ UNCHANGED <<chunk_list, citations, refined, used_fallback, validate_vars>>
    /\ SynthOnly

\* citations = self._build_citations(chunk_list); context = ...
SynthBuild ==
    /\ y_pc = "start"
    /\ chunk_list # <<>>
    /\ citations' = BuildCitations(chunk_list)
    /\ y_pc' = "initial"
    /\ UNCHANGED <<chunk_list, refined, used_fallback, validate_vars>>
    /\ SynthOnly

\* initial = await self._initial_summary(...): the collaborator answers.
SynthInitialSummary ==
    /\ y_pc = "initial"
    /\ y_pc' = "refine"
    /\ UNCHANGED <<chunk_list, citations, refined, used_fallback, validate_vars>>
    /\ SynthOnly

\* refined = await self._chain_of_density(...): the collaborator answers
\* with any text.
SynthChainOfDensity ==
    /\ y_pc = "refine"
    /\ refined' \in SeqsUpTo(Lines, MaxLines)
    /\ y_pc' = "parse"
    /\ UNCHANGED <<chunk_list, citations, used_fallback, validate_vars>>
    /\ SynthOnly

\* self._llm.generate raises in either pass: synthesize has no handler.
SynthGenerateRaises ==
    /\ y_pc \in {"initial", "refine"}
    /\ y_pc' = "raised"
    /\ UNCHANGED <<chunk_list, citations, refined, used_fallback, validate_vars>>
    /\ SynthOnly

\* bullets = self._parse_bullets(refined); the fallback when there is none;
\* the AnswerResponse is built and returned.
SynthFinish ==
    /\ y_pc = "parse"
    /\ LET parsed == ParseBullets(refined) IN
       /\ used_fallback' = (parsed = <<>>)
       /\ answer' = [bullets |-> IF parsed = <<>>
                                 THEN FallbackBullets(chunk_list, citations)
                                 ELSE parsed,
                     sources |-> Sources(citations)]
    /\ y_pc' = "done"
    /\ v_pc' = "ready"
    /\ UNCHANGED <<chunk_list, citations, refined, report>>
    /\ SynthOnly

--------------------------------------------------------------------------
(* core/validate.py: validate_answer *)

MaxBullets == 2

MaxManyBullets == 21

\* label_to_source: the labels of answer.sources
KnownLabels(ans) == {ans.sources[i].label : i \in 1..Len(ans.sources)}

\* unknown = [label for label in bullet.citations if label not in label_to_source]
Unknown(bullet, known) ==
    SelectSeq(bullet.citations, LAMBDA label : label \notin known)

\* The loop of validate_answer over the bullets from index idx (0-based) on.
RECURSIVE ValidateLoop(_, _, _, _, _)
ValidateLoop(bullets, known, idx, issues, covered_bullets) ==
    IF idx >= Len(bullets)
    THEN [issues |-> issues, covered_bullets |-> covered_bullets]
    ELSE LET bullet == bullets[idx + 1] IN
         IF bullet.citations = <<>>
         THEN ValidateLoop(bullets, known, idx + 1,
                  Append(issues, [message |-> "missing citation",
                                  severity |-> "error", bullet_index |-> idx]),
                  covered_bullets)
         ELSE IF Unknown(bullet, known) # <<>>
              THEN ValidateLoop(bullets, known, idx + 1,
                       Append(issues, [message |-> "unknown citations",
                                       severity |-> "error", bullet_index |-> idx]),
                       covered_bullets)
              ELSE ValidateLoop(bullets, known, idx + 1, issues, covered_bullets + 1)

\* A mutation of Passed: only full coverage passes.
PassedOnlyFull(coverage) == coverage.num = coverage.den

\* passed = coverage >= 0.95, on the exact fraction (the float quotient of two
\* small integers compares with 0.95 as the fraction does with 95/100).
Passed(coverage) == coverage.num * 100 >= coverage.den * 95

\* coverage = covered_bullets / max(len(answer.bullets), 1), as a fraction
Coverage(covered_bullets, bullets) ==
    [num |-> covered_bullets, den |-> Max(Len(bullets), 1)]

\* validate_answer
ValidateAnswer(ans) ==
    LET r == ValidateLoop(ans.bullets, KnownLabels(ans), 0, <<>>, 0)
        coverage == Coverage(r.covered_bullets, ans.bullets)
    IN  [passed |-> Passed(coverage), coverage |-> coverage, issues |-> r.issues]

\* Answers of a few bullets with any citations.
SmallAnswers ==
    [bullets : SeqsUpTo([citations : SeqsUpTo(0..MaxLabel, 2)], MaxBullets),
     sources : {Sources(c) : c \in {<<>>, <<"u1">>, <<"u1", "u2">>}}]

\* Answers of n bullets citing [1], but for the bullets p and q (0: none),
\* which cite nothing (kind "m") or a label of no source (kind "u").
ManyBullets(n, p, kp, q, kq) ==
    [i \in 1..n |->
        [citations |-> IF i = p THEN (IF kp = "m" THEN <<>> ELSE <<2>>)
                       ELSE IF i = q THEN (IF kq = "m" THEN <<>> ELSE <<1, 2>>)
                       ELSE <<1>>]]

ManyAnswers ==
    {[bullets |-> ManyBullets(n, p, kp, q, kq), sources |-> Sources(<<"u1">>)] :
        n \in (MaxManyBullets - 3)..MaxManyBullets, p \in {0, 1}, q \in {0, 2},
        kp \in {"m", "u"}, kq \in {"m", "u"}}

ValidateIdle ==
    /\ v_pc = "off"
    /\ answer = NoAnswer
    /\ report = NoReport

\* validate_answer is called with an answer.
ValidateInit ==
    /\ v_pc = "ready"
    /\ answer \in SmallAnswers \cup ManyAnswers
    /\ report = NoReport

\* report = validate_answer(answer)
Validate ==
    /\ v_pc = "ready"
    /\ report' = ValidateAnswer(answer)
    /\ v_pc' = "validated"
    /\ UNCHANGED answer
    /\ ValidateOnly

--------------------------------------------------------------------------
(* core/pipeline.py: Pipeline.run *)

MaxSources == 2

MaxQueries == 2

MaxWindows == 2

max_chunks == 40

Stages == <<"PLAN", "SEARCH", "ACQUIRE", "CHUNK", "RANK", "SYNTHESIZE", "VALIDATE">>

\* A mutation of StageAfter: a search that found nothing sends the run back
\* to planning.
StageAfterReplan(stage, found) ==
    IF stage = "SEARCH" /\ found = 0 THEN "PLAN"
    ELSE IF stage = "VALIDATE" THEN "DONE"
    ELSE Stages[(CHOOSE i \in 1..Len(Stages) : Stages[i] = stage) + 1]

\* The statement order of run: every stage is followed by the next one,
\* whatever the stage found; the return follows validate_answer.
StageAfter(stage, found) ==
    IF stage = "VALIDATE" THEN "DONE"
    ELSE Stages[(CHOOSE i \in 1..Len(Stages) : Stages[i] = stage) + 1]

NoResult == [answer |-> "none", telemetry |-> "none"]

\* An exception leaves run: nothing is returned.
Raised == NoResult

Sum(seq) ==
    LET RECURSIVE S(_)
        S(i) == IF i = 0 THEN 0 ELSE S(i - 1) + seq[i]
    IN  S(Len(seq))

PipelineIdle ==
    /\ p_pc = "off"
    /\ trace = <<>>
    /\ max_sources = 0
    /\ search_queries = 0
    /\ search_results = 0
    /\ documents = <<>>
    /\ chunks = 0
    /\ ranked_chunks = 0
    /\ run_result = NoResult

\* run is called with a request (1 <= max_sources).
PipelineInit ==
    /\ p_pc = "PLAN"
    /\ trace = <<>>
    /\ max_sources \in 1..MaxSources
    /\ search_queries = 0
    /\ search_results = 0
    /\ documents = <<>>
    /\ chunks = 0
    /\ ranked_chunks = 0
    /\ run_result = NoResult

\* planner_steps = await self.planner.plan(...); the queries of all steps.
\* plan catches the failure of its collaborator itself.
StagePlan ==
    /\ p_pc = "PLAN"
    /\ trace' = Append(trace, "PLAN")
    /\ search_queries' \in 0..MaxQueries
    /\ p_pc' = StageAfter("PLAN", search_queries')
    /\ UNCHANGED <<max_sources, search_results, documents, chunks,
                   ranked_chunks, run_result>>
    /\ PipelineOnly

\* search_results = await self.search_service.batch_search(queries, top_k)
StageSearch ==
    /\ p_pc = "SEARCH"
    /\ trace' = Append(trace, "SEARCH")
    /\ search_results' \in 0..Min(max_sources, search_queries * max_sources)
    /\ p_pc' = StageAfter("SEARCH", search_results')
    /\ UNCHANGED <<max_sources, search_queries, documents, chunks,
                   ranked_chunks, run_result>>
    /\ PipelineOnly

\* documents = await self._fetch_and_parse(search_results[:max_sources]): a
\* document per result, the fetched one or the one made of the snippet,
\* which may hold no word.
StageAcquire ==
    /\ p_pc = "ACQUIRE"
    /\ trace' = Append(trace, "ACQUIRE")
    /\ documents' \in [1..Min(search_results, max_sources) -> BOOLEAN]
    /\ p_pc' = StageAfter("ACQUIRE", Len(documents'))
    /\ UNCHANGED <<max_sources, search_queries, search_results, chunks,
                   ranked_chunks, run_result>>
    /\ PipelineOnly

\* chunks = chunk_corpus(documents): no window for a text without words,
\* one or more for any other.
StageChunk ==
    /\ p_pc = "CHUNK"
    /\ trace' = Append(trace, "CHUNK")
    /\ \E windows \in [1..Len(documents) -> 0..MaxWindows] :
          /\ \A i \in 1..Len(documents) : (windows[i] = 0) <=> ~documents[i]
          /\ chunks' = Sum(windows)
    /\ p_pc' = StageAfter("CHUNK", chunks')
    /\ UNCHANGED <<max_sources, search_queries, search_results, documents,
                   ranked_chunks, run_result>>
    /\ PipelineOnly

\* ranked_chunks = self.retriever.rank(question, chunks,
\*                     top_k=min(len(chunks), max_chunks))
StageRank ==
    /\ p_pc = "RANK"
    /\ trace' = Append(trace, "RANK")
    /\ ranked_chunks' = Min(chunks, max_chunks)
    /\ p_pc' = StageAfter("RANK", ranked_chunks')
    /\ UNCHANGED <<max_sources, search_queries, search_results, documents,
                   chunks, run_result>>
    /\ PipelineOnly

\* answer, synth_metadata = await self.synthesizer.synthesize(...), which
\* raises when it is given no chunk.
StageSynthesize ==
    /\ p_pc = "SYNTHESIZE"
    /\ trace' = Append(trace, "SYNTHESIZE")
    /\ IF ranked_chunks = 0
       THEN /\ p_pc' = "FAILED"
            /\ run_result' = Raised
       ELSE /\ p_pc' = StageAfter("SYNTHESIZE", 1)
            /\ UNCHANGED run_result
    /\ UNCHANGED <<max_sources, search_queries, search_results, documents,
                   chunks, ranked_chunks>>
    /\ PipelineOnly

\* report = validate_answer(answer); metadata = RunMetadata(...);
\* return answer, metadata
StageValidate ==
    /\ p_pc = "VALIDATE"
    /\ trace' = Append(trace, "VALIDATE")
    /\ run_result' = [answer |-> "answer", telemetry |-> "telemetry"]
    /\ p_pc' = StageAfter("VALIDATE", 1)
    /\ UNCHANGED <<max_sources, search_queries, search_results, documents,
                   chunks, ranked_chunks>>
    /\ PipelineOnly

\* A collaborator raises inside a stage that calls one: the search provider
\* (there is a query), the fetcher or the parser (there is a result), the
\* embedding or rerank model (there is a chunk), the text generation. run has
\* no handler.
StageRaises ==
    /\ \/ p_pc = "SEARCH" /\ search_queries > 0
       \/ p_pc = "ACQUIRE" /\ search_results > 0
       \/ p_pc = "RANK" /\ chunks > 0
       \/ p_pc = "SYNTHESIZE" /\ ranked_chunks > 0
    /\ trace' = Append(trace, p_pc)
    /\ p_pc' = "FAILED"
    /\ run_result' = Raised
    /\ UNCHANGED <<max_sources, search_queries, search_results, documents,
                   chunks, ranked_chunks>>
    /\ PipelineOnly

--------------------------------------------------------------------------
(* core/pipeline.py: Pipeline._fetch_and_parse *)

MaxResults == 2

max_retries == 2

\* result.snippet: the default "" of SearchResult, or the text of a stub result.
Snippets == {"", "No API key configured. This is a stub result."}

\* What one pass of fetch_single's loop tells apart in a fetch attempt:
\*   "absent"      fetch returned None
\*   "non_200"     a FetchResult with another status code
\*   "short"       status 200, content shorter than 200 characters
\*   "unparseable" extract_document returned None
\*   "blank"       a document whose text.strip() is empty
\*   "ok"          a document with text
FetchOutcomes == {"absent", "non_200", "short", "unparseable", "blank", "ok"}

NoDocument == [text |-> "", fallback |-> FALSE, reason |-> "no document"]

\* The document extract_document built from the page.
FetchedDocument == [text |-> "page text", fallback |-> FALSE, reason |-> "none"]

\* RetrievedDocument(text=result.snippet, metadata={"fallback": True, "reason": ...})
SnippetDocument(snippet) ==
    [text |-> snippet, fallback |-> TRUE, reason |-> "fetch_blocked_or_failed"]

\* A mutation of AfterFailure: the last failed attempt gives no document.
AfterFailureNoFallback(attempt, snippet) ==
    IF attempt = max_retries - 1
    THEN [state |-> "done", doc |-> NoDocument]
    ELSE [state |-> "sleeping", doc |-> NoDocument]

\* fetch_single after a failed attempt (0-based): the snippet document on the
\* last attempt, else asyncio.sleep before the next attempt.
AfterFailure(attempt, snippet) ==
    IF attempt = max_retries - 1
    THEN [state |-> "done", doc |-> SnippetDocument(snippet)]
    ELSE [state |-> "sleeping", doc |-> NoDocument]

AcquireIdle ==
    /\ a_pc = "off"
    /\ a_results = <<>>
    /\ a_tasks = <<>>
    /\ a_completed = <<>>
    /\ a_documents = <<>>

\* _fetch_and_parse is called with the search results (each by its snippet):
\* tasks = [fetch_single(result) for result in search_results]
AcquireInit ==
    /\ a_pc = "running"
    /\ a_results \in SeqsUpTo(Snippets, MaxResults)
    /\ a_tasks = [i \in 1..Len(a_results) |->
                    [state |-> "ready", attempt |-> 0, last |-> "none",
                     doc |-> NoDocument]]
    /\ a_completed = <<>>
    /\ a_documents = <<>>

\* One pass of fetch_single's loop for result i: the fetch and the parse end
\* with outcome.
FetchAttempt(i, outcome) ==
    /\ a_pc = "running"
    /\ a_tasks[i].state = "ready"
    /\ a_tasks[i].attempt < max_retries
    /\ LET next == IF outcome = "ok"
                   THEN [state |-> "done", doc |-> FetchedDocument]
                   ELSE AfterFailure(a_tasks[i].attempt, a_results[i])
       IN  /\ a_tasks' = [a_tasks EXCEPT ![i] =
                             [state |-> next.state,
                              attempt |-> @.attempt + 1,
                              last |-> outcome,
                              doc |-> next.doc]]
           /\ a_completed' = IF next.state = "done"
                             THEN Append(a_completed, i)
                             ELSE a_completed
    /\ UNCHANGED <<a_pc, a_results, a_documents>>
    /\ AcquireOnly

FetchAttempts == \E i \in 1..Len(a_results) : \E outcome \in FetchOutcomes :
                    FetchAttempt(i, outcome)

\* await asyncio.sleep(1 * (attempt + 1)) of result i is over.
BackoffOver ==
    /\ a_pc = "running"
    /\ \E i \in 1..Len(a_results) :
          /\ a_tasks[i].state = "sleeping"
          /\ a_tasks' = [a_tasks EXCEPT ![i].state = "ready"]
    /\ UNCHANGED <<a_pc, a_results, a_completed, a_documents>>
    /\ AcquireOnly

\* for coro in asyncio.as_completed(tasks): document = await coro;
\* if document: documents.append(document)
CollectDocument ==
    /\ a_pc = "running"
    /\ a_completed # <<>>
    /\ LET i == Head(a_completed) IN
       /\ a_documents' = IF a_tasks[i].doc = NoDocument
                         THEN a_documents
                         ELSE Append(a_documents,
                                     [result |-> i, doc |-> a_tasks[i].doc])
       /\ a_tasks' = [a_tasks EXCEPT ![i].state = "collected"]
    /\ a_completed' = Tail(a_completed)
    /\ UNCHANGED <<a_pc, a_results>>
    /\ AcquireOnly

\* Every task is collected: return documents.
AcquireReturn ==
    /\ a_pc = "running"
    /\ \A i \in 1..Len(a_results) : a_tasks[i].state = "collected"
    /\ a_pc' = "returned"
    /\ UNCHANGED <<a_results, a_tasks, a_completed, a_documents>>
    /\ AcquireOnly

--------------------------------------------------------------------------
(* app/api.py: answer, over ace/generator.py: Generator.answer *)

ApiIdle ==
    /\ api_pc = "off"
    /\ api_raised = "none"
    /\ api_response = "none"

\* POST /answer: answer awaits generator.answer(request), which awaits
\* pipeline.run.
ApiInit ==
    /\ api_pc = "generator"
    /\ api_raised = "none"
    /\ api_response = "none"

\* generator.answer returned (answer, metadata).
AnswerGenerated ==
    /\ api_pc = "generator"
    /\ p_pc = "DONE"
    /\ api_pc' = "critique"
    /\ UNCHANGED <<api_raised, api_response>>
    /\ ApiOnly

\* except Exception as exc: raise HTTPException(status_code=500, ...)
AnswerGeneratorRaised ==
    /\ api_pc = "generator"
    /\ p_pc = "FAILED"
    /\ api_pc' = "responded"
    /\ api_raised' = "generator.answer"
    /\ api_response' = "http_500"
    /\ ApiOnly

\* deltas = reflector.critique(metadata)
AnswerCritique ==
    /\ api_pc = "critique"
    /\ api_pc' = "merge"
    /\ UNCHANGED <<api_raised, api_response>>
    /\ ApiOnly

\* reflector.critique raises, outside the try block: the framework answers
\* for the handler with an internal server error.
AnswerCritiqueRaises ==
    /\ api_pc = "critique"
    /\ api_pc' = "responded"
    /\ api_raised' = "reflector.critique"
    /\ api_response' = "http_500"
    /\ ApiOnly

\* merged = curator.merge(deltas); answer.metadata["ace"] = ...; return answer
AnswerMerge ==
    /\ api_pc = "merge"
    /\ api_pc' = "responded"
    /\ api_response' = "answer"
    /\ UNCHANGED api_raised
    /\ ApiOnly

\* curator.merge raises (the store's database), outside the try block.
AnswerMergeRaises ==
    /\ api_pc = "merge"
    /\ api_pc' = "responded"
    /\ api_raised' = "curator.merge"
    /\ api_response' = "http_500"
    /\ ApiOnly

--------------------------------------------------------------------------
(* core/synth.py: Synthesizer, on chunk lists of up to eight urls and a
   refined text without bullet *)

MaxFallbackChunks == 8

\* The chunk lists of n chunks, a url being the number of distinct urls up
\* to its first chunk.
RECURSIVE ChunkListsOf(_)
ChunkListsOf(n) ==
    IF n = 0 THEN {<<>>}
    ELSE UNION {{Append(list, url) : url \in 1..(Cardinality(Range(list)) + 1)}
                   : list \in ChunkListsOf(n - 1)}

\* Texts _parse_bullets finds no bullet in: empty, a heading, a "Sources:"
\* section.
NoBulletTexts ==
    { <<>>,
      <<[kind |-> "short", cites |-> <<>>]>>,
      <<[kind |-> "sources", cites |-> <<>>], [kind |-> "marker", cites |-> <<1>>]>> }

\* synthesize is called with the ranked chunks.
SynthFallbackInit ==
    /\ y_pc = "start"
    /\ chunk_list \in UNION {ChunkListsOf(n) : n \in 0..MaxFallbackChunks}
    /\ citations = <<>>
    /\ refined = <<>>
    /\ used_fallback = FALSE

\* refined = await self._chain_of_density(...): the collaborator answers
\* with a text without bullet.
SynthChainOfDensityNoBullets ==
    /\ y_pc = "refine"
    /\ refined' \in NoBulletTexts
    /\ y_pc' = "parse"
    /\ UNCHANGED <<chunk_list, citations, used_fallback, validate_vars>>
    /\ SynthOnly

MaxParseLines == 4

\* The lines of a refined text, with the labels 1 and 2.
ParseInputLines ==
    {[kind |-> "blank", cites |-> <<>>], [kind |-> "sources", cites |-> <<>>]}
    \cup [kind : {"marker", "long", "short"}, cites : {<<>>, <<1>>, <<2>>}]

\* synthesize on one chunk, after the collaborator has answered with refined.
SynthParseInit ==
    /\ y_pc = "parse"
    /\ chunk_list = <<"u1">>
    /\ citations = BuildCitations(chunk_list)
    /\ refined \in SeqsUpTo(ParseInputLines, MaxParseLines)
    /\ used_fallback = FALSE

--------------------------------------------------------------------------
(* core/llm.py: EchoClient, as the Synthesizer's generation collaborator *)

TextLine(kind, cites) == [kind |-> kind, cites |-> cites]

BlankLine == TextLine("blank", <<>>)

\* Synthesizer._build_context, as lines: per chunk "[label] title (type)",
\* "URL: ...", "Snippet: ..." and an empty line.
BuildContext(chunk_urls, cits) ==
    Flatten([i \in 1..Len(chunk_urls) |->
              << TextLine("long", <<LabelOf(cits, chunk_urls[i])>>),
                 TextLine("long", <<>>),
                 TextLine("long", <<>>),
                 BlankLine >>])

\* EchoClient.generate: "[tag mock response]" and then every message as
\* "[role] content", an empty line between the messages.
EchoGenerate(system, user) ==
    << TextLine("long", <<>>) >>
    \o <<[system[1] EXCEPT !.kind = "long"]>> \o Tail(system)
    \o << BlankLine >>
    \o <<[user[1] EXCEPT !.kind = "long"]>> \o Tail(user)

\* The messages of _initial_summary, as lines: the instructions are numbered
\* "1." to "6."; the third holds "[1], [2]", the first "[Claim] [citation]".
InitialSummaryEcho(context) ==
    EchoGenerate(
        << TextLine("long", <<>>) >>,
        << TextLine("long", <<>>), BlankLine, TextLine("short", <<>>) >>
        \o context
        \o << BlankLine, BlankLine, TextLine("short", <<>>),
              TextLine("marker", <<>>), TextLine("marker", <<>>),
              TextLine("marker", <<1, 2>>), TextLine("marker", <<>>),
              TextLine("marker", <<>>), TextLine("marker", <<>>) >>)

\* The messages of _chain_of_density around the draft, as lines: the rules
\* are numbered "1." to "5."; the third holds "[x]".
ChainOfDensityEcho(context, draft) ==
    EchoGenerate(
        << TextLine("long", <<>>) >>,
        << TextLine("long", <<>>), TextLine("short", <<>>) >>
        \o context
        \o << BlankLine, BlankLine, TextLine("short", <<>>) >>
        \o draft
        \o << BlankLine, BlankLine, TextLine("short", <<>>),
              TextLine("marker", <<>>), TextLine("marker", <<>>),
              TextLine("marker", <<>>), TextLine("marker", <<>>),
              TextLine("marker", <<>>) >>)

\* synthesize is called with the chunks of the stub results.
SynthOfflineInit ==
    /\ y_pc = "start"
    /\ chunk_list \in SeqsUpTo(Urls, MaxChunks)
    /\ citations = <<>>
    /\ refined = <<>>
    /\ used_fallback = FALSE

\* refined = await self._chain_of_density(question, context, initial), both
\* passes answered by the EchoClient.
SynthChainOfDensityEcho ==
    /\ y_pc = "refine"
    /\ LET context == BuildContext(chunk_list, citations) IN
       refined' = ChainOfDensityEcho(context, InitialSummaryEcho(context))
    /\ y_pc' = "parse"
    /\ UNCHANGED <<chunk_list, citations, used_fallback, validate_vars>>
    /\ SynthOnly

--------------------------------------------------------------------------
(* core/planner.py: Planner *)

MaxHints == 2

MaxTasks == 4

max_steps == 3

\* _SOURCE_ALIASES, for the source types of the model and two of the
\* aliases of each.
SourceAliases(source_type) ==
    CASE source_type = "arxiv"  -> {"arxiv", "paper"}
      [] source_type = "github" -> {"github", "repo"}
      [] source_type = "news"   -> {"news", "launch"}

\* The iteration order of _SOURCE_ALIASES.items()
AliasOrder == <<"arxiv", "github", "news">>

Triggers == {"t1"}

\* A text (the question or a task), by the source types one of whose
\* aliases occurs in it and the triggers that occur in it.
PlanTexts == [mentions : {{}, {"github"}}, triggers : SUBSET Triggers]

\* A hint "namespace: trigger => rewrite": whether it holds "=>", the
\* stripped parts around ":" and "=>" ("" when empty or absent), and the
\* aliases that occur in the hint's text.
WordsOf(source_filter) ==
    {({source_filter} \ {""}) \cup extra : extra \in {{}, {"github"}}}

HintsWith(rewrite) ==
    {[arrow |-> FALSE, source_filter |-> "", trigger |-> "", rewrite |-> "",
      words |-> w] : w \in WordsOf("")}
    \cup UNION {[arrow : {TRUE}, source_filter : {f}, trigger : Triggers \cup {""},
                 rewrite : {"", rewrite}, words : WordsOf(f)]
                   : f \in {"", "repo", "arxiv"}}

Rewrites == <<"r1", "r2", "r3">>

\* The hint lists of n hints, the i-th with its own rewrite text.
RECURSIVE HintListsOf(_)
HintListsOf(n) ==
    IF n = 0 THEN {<<>>}
    ELSE {Append(h, x) : h \in HintListsOf(n - 1), x \in HintsWith(Rewrites[n])}

HintLists(n) == UNION {HintListsOf(m) : m \in 0..n}

\* Planner._source_matches
SourceMatches(key, source_type) ==
    key = source_type \/ key \in SourceAliases(source_type)

\* A mutation of ApplyPlaybook: a hint without "=>" is its own rewrite.
RECURSIVE ApplyPlaybookWholeHint(_, _, _, _)
ApplyPlaybookWholeHint(task, question, source_type, playbook_hints) ==
    IF playbook_hints = <<>> THEN "none"
    ELSE LET hint == Head(playbook_hints)
             next == ApplyPlaybookWholeHint(task, question, source_type, Tail(playbook_hints))
             alias_in_hint == SourceAliases(source_type) \cap hint.words # {}
         IN  IF ~hint.arrow THEN (IF alias_in_hint THEN "hint" ELSE next)
             ELSE IF hint.rewrite = "" THEN next
             ELSE IF hint.source_filter # ""
                     /\ ~SourceMatches(hint.source_filter, source_type) THEN next
             ELSE IF hint.trigger # ""
                  THEN IF hint.trigger \in task.triggers \cup question.triggers
                       THEN hint.rewrite
                       ELSE IF alias_in_hint THEN hint.rewrite ELSE next
                  ELSE hint.rewrite

\* Planner._apply_playbook; "none" is None.
RECURSIVE ApplyPlaybook(_, _, _, _)
ApplyPlaybook(task, question, source_type, playbook_hints) ==
    IF playbook_hints = <<>> THEN "none"
    ELSE LET hint == Head(playbook_hints)
             next == ApplyPlaybook(task, question, source_type, Tail(playbook_hints))
             alias_in_hint == SourceAliases(source_type) \cap hint.words # {}
         IN  IF ~hint.arrow THEN next
             ELSE IF hint.rewrite = "" THEN next
             ELSE IF hint.source_filter # ""
                     /\ ~SourceMatches(hint.source_filter, source_type) THEN next
             ELSE IF hint.trigger # ""
                  THEN IF hint.trigger \in task.triggers \cup question.triggers
                       THEN hint.rewrite
                       ELSE IF alias_in_hint THEN hint.rewrite ELSE next
                  ELSE hint.rewrite

PlaybookIdle ==
    /\ ap_pc = "off"
    /\ ap_args = [task |-> [mentions |-> {}, triggers |-> {}],
                  question |-> [mentions |-> {}, triggers |-> {}],
                  source_type |-> "arxiv", playbook_hints |-> <<>>]
    /\ ap_rewrite = "none"

\* _apply_playbook(task, question, source_type, playbook_hints) is called.
PlaybookInit ==
    /\ ap_pc = "apply"
    /\ ap_args \in [task : [mentions : {{}}, triggers : SUBSET Triggers],
                    question : [mentions : {{}}, triggers : SUBSET Triggers],
                    source_type : SourceTypes,
                    playbook_hints : HintLists(MaxHints)]
    /\ ap_rewrite = "none"

ApplyPlaybookReturns ==
    /\ ap_pc = "apply"
    /\ ap_rewrite' = ApplyPlaybook(ap_args.task, ap_args.question,
                                   ap_args.source_type, ap_args.playbook_hints)
    /\ ap_pc' = "returned"
    /\ UNCHANGED ap_args
    /\ PlaybookOnly

\* Reflector._check_validation: the content of the validation delta.
ValidationContent ==
    "Ensure every bullet references at least one snippet; if evidence is weak, rerun retrieval with broader filters."

\* The contents of the items the Reflector produces.
ReflectorContents ==
    {ValidationContent} \cup {FreshnessContent(t) : t \in ReflectedTypes}
                        \cup {CoverageContent(t) : t \in ReflectedTypes}

\* sub in text, for two str
Contains(text, sub) ==
    \E i \in 1..(Len(text) - Len(sub) + 1) : SubSeq(text, i, i + Len(sub) - 1) = sub

\* str.lower() on one character of the contents above, whose capital
\* letters are E, F and W.
LowerChar(c) ==
    CASE c = "E" -> "e" [] c = "F" -> "f" [] c = "W" -> "w" [] OTHER -> c

\* sub in text.lower()
ContainsLower(text, sub) ==
    \E i \in 1..(Len(text) - Len(sub) + 1) :
        \A k \in 1..Len(sub) :
            LowerChar(SubSeq(text, i + k - 1, i + k - 1)) = SubSeq(sub, k, k)

\* A hint without "=>" as _apply_playbook reads it: rewrite stays None, and
\* the aliases that occur in hint.lower().
PlainHint(hint) ==
    [arrow |-> Contains(hint, "=>"), source_filter |-> "", trigger |-> "",
     rewrite |-> "",
     words |-> {alias \in UNION {SourceAliases(t) : t \in SourceTypes} :
                   ContainsLower(hint, alias)}]

\* Generator._retrieve_playbook_hints over a store of Reflector items:
\* hints = [item.content for item in items].
ReflectorHints == {PlainHint(content) : content \in ReflectorContents}

\* _apply_playbook is called with hints that are contents of Reflector items.
PlaybookReflectorInit ==
    /\ ap_pc = "apply"
    /\ ap_args \in [task : [mentions : {{}}, triggers : SUBSET Triggers],
                    question : [mentions : {{}}, triggers : SUBSET Triggers],
                    source_type : SourceTypes,
                    playbook_hints : SeqsUpTo(ReflectorHints, MaxHints)]
    /\ ap_rewrite = "none"

\* _match_source_types; the default list holds the source types of the model
MatchSourceTypes(text, include_defaults) ==
    LET matches == SelectSeq(AliasOrder, LAMBDA source_type : source_type \in text.mentions)
    IN  IF matches = <<>> /\ include_defaults THEN AliasOrder ELSE matches

\* The two process runs plan is called in
Processes == {1, 2}

\* The orders in which a process run may iterate over a set of SourceType
\* members (their hashes are string hashes, seeded per process run); a set
\* is iterated over in the order of its members in one of these.
IterationOrders ==
    {order \in [1..Cardinality(SourceTypes) -> SourceTypes] :
        \A i, j \in 1..Cardinality(SourceTypes) : i # j => order[i] # order[j]}

\* The search queries of one step: for source_type in effective_sources,
\* one query (a query_base of up to 8 OR parts) when the type is configured.
StepQueries(task, question, matched_sources, playbook_hints, configured, order) ==
    LET task_sources == MatchSourceTypes(task, FALSE)
        united       == Range(task_sources) \cup Range(matched_sources)
        effective_sources == IF united = {} THEN SourceTypes ELSE united
        iterated == SelectSeq(order, LAMBDA source_type :
                        source_type \in effective_sources /\ source_type \in configured)
    IN  [i \in 1..Len(iterated) |->
            [source_type |-> iterated[i],
             rewrite |-> ApplyPlaybook(task, question, iterated[i], playbook_hints)]]

\* The steps plan returns for sub_tasks[: max_steps]
PlanSteps(request, order) ==
    LET matched_sources == MatchSourceTypes(request.question, TRUE)
        tasks == Take(request.sub_tasks, max_steps)
    IN  [idx \in 1..Len(tasks) |->
            [thought |-> idx,
             search_queries |-> StepQueries(tasks[idx], request.question, matched_sources,
                                            request.playbook_hints, request.sources_config, order)]]

PlannerIdle ==
    /\ pl_pc = [p \in Processes |-> "off"]
    /\ pl_request = [question |-> [mentions |-> {}, triggers |-> {}], sub_tasks |-> <<>>,
                     playbook_hints |-> <<>>, sources_config |-> {}]
    /\ hash_order = [p \in Processes |-> <<>>]
    /\ plan_steps = [p \in Processes |-> <<>>]

\* plan(request, playbook_hints) is called in two process runs with the same
\* question, hints and sources configuration, and the generation
\* collaborator answers the same sub-tasks in both.
PlannerInit ==
    /\ pl_pc = [p \in Processes |-> "plan"]
    /\ pl_request \in
          [question : PlanTexts,
           sub_tasks : SeqsUpTo([mentions : {{}, {"github"}}, triggers : {{}}], MaxTasks) \ {<<>>},
           playbook_hints : {<<>>, <<[arrow |-> TRUE, source_filter |-> "repo", trigger |-> "",
                                     rewrite |-> "r1", words |-> {"repo"}]>>},
           sources_config : {SourceTypes, SourceTypes \ {"news"}}]
    /\ hash_order = [p \in Processes |-> <<>>]
    /\ plan_steps = [p \in Processes |-> <<>>]

Plan(p) ==
    /\ pl_pc[p] = "plan"
    /\ \E order \in IterationOrders :
          /\ hash_order' = [hash_order EXCEPT ![p] = order]
          /\ plan_steps' = [plan_steps EXCEPT ![p] = PlanSteps(pl_request, order)]
    /\ pl_pc' = [pl_pc EXCEPT ![p] = "returned"]
    /\ UNCHANGED pl_request
    /\ PlannerOnly

Plans == \E p \in Processes : Plan(p)

--------------------------------------------------------------------------
(* core/rank.py: Retriever *)

MaxRanked == 3

config_top_k == 12

zero_embedding_dim == 768

RankScores == {0, 1}

\* chunk.text.split() and query.split(), lowercased, as sets of terms
ChunkTerms == {{"a"}, {"b"}}

QueryTerms == {{"a"}, {"a", "b"}}

\* A chunk: its text as terms, the dot product of its embedding with the
\* query's (embed) and the score the cross-encoder gives it (rerank), both
\* when the model is loaded, and its score field (chunk_corpus sets 0.0).
RankedChunk(i, terms, embed, rerank) ==
    [id |-> i, terms |-> terms, embed |-> embed, rerank |-> rerank, score |-> 0]

\* Retriever._embed: np.zeros((len(texts), 768)) without embedder, otherwise
\* one vector of the model's dimension per text.
EmbeddingsSize(n) == n * zero_embedding_dim

\* np.dot(embeddings, query_embedding)
DotScore(chunk, embedder) == IF embedder THEN chunk.embed ELSE 0

\* Retriever._lexical_score, as the numerator over len(query_terms or {1}),
\* the same denominator for every chunk of one call.
LexicalScore(terms, chunk) ==
    IF chunk.terms = {} THEN 0 ELSE Cardinality(terms \cap chunk.terms)

LexicalDenominator(terms) ==
    IF terms = {} THEN 1 ELSE Cardinality(terms)

\* The list scored of rank, (chunk, score) pairs as [key, val].
StageA(terms, list, k, embedder) ==
    IF EmbeddingsSize(Len(list)) = 0
    THEN [i \in 1..Len(list) |->
            [key |-> LexicalScore(terms, list[i]), val |-> list[i]]]
    ELSE Take(SortDesc([i \in 1..Len(list) |->
                 [key |-> DotScore(list[i], embedder),
                  val |-> [list[i] EXCEPT !.score = DotScore(list[i], embedder)]]]),
              k * 2)

\* A mutation of Rerank: every candidate gets the score 0.
RerankConstant(candidates, reranker) ==
    [i \in 1..Len(candidates) |-> [key |-> 0, val |-> candidates[i]]]

\* Retriever._rerank
Rerank(candidates, reranker) ==
    [i \in 1..Len(candidates) |->
        [key |-> IF reranker THEN candidates[i].rerank ELSE candidates[i].score,
         val |-> candidates[i]]]

\* reranked.sort(...); chunk.score = float(score) for reranked[:top_k]
TopChunks(scored_list, k, reranker) ==
    LET reranked == SortDesc(Rerank(Unkey(scored_list), reranker))
        top      == Take(reranked, k)
    IN  [i \in 1..Len(top) |-> [top[i].val EXCEPT !.score = top[i].key]]

RankIdle ==
    /\ k_pc = "off"
    /\ retriever = [embedder |-> FALSE, reranker |-> FALSE]
    /\ query = {}
    /\ chunks_list = <<>>
    /\ rank_top_k = 0
    /\ scored = <<>>
    /\ top_chunks = <<>>

\* rank(query, chunks, top_k) is called on a retriever whose models are
\* loaded or not.
RankInit ==
    /\ k_pc = "rank"
    /\ retriever \in [embedder : BOOLEAN, reranker : BOOLEAN]
    /\ query \in QueryTerms
    /\ \E n \in 0..MaxRanked :
          \E terms \in [1..n -> ChunkTerms], embed \in [1..n -> RankScores],
             rerank \in [1..n -> RankScores] :
              chunks_list = [i \in 1..n |-> RankedChunk(i, terms[i], embed[i], rerank[i])]
    /\ rank_top_k \in 0..MaxTopK
    /\ scored = <<>>
    /\ top_chunks = <<>>

\* if not chunks_list: return []
RankEmpty ==
    /\ k_pc = "rank"
    /\ chunks_list = <<>>
    /\ top_chunks' = <<>>
    /\ k_pc' = "returned"
    /\ UNCHANGED <<retriever, query, chunks_list, rank_top_k, scored>>
    /\ RankOnly

Rank ==
    /\ k_pc = "rank"
    /\ chunks_list # <<>>
    /\ LET k == IF rank_top_k # 0 THEN rank_top_k ELSE config_top_k IN
       /\ scored' = StageA(query, chunks_list, k, retriever.embedder)
       /\ top_chunks' = TopChunks(scored', k, retriever.reranker)
    /\ k_pc' = "returned"
    /\ UNCHANGED <<retriever, query, chunks_list, rank_top_k>>
    /\ RankOnly

--------------------------------------------------------------------------
(* ace/reflector.py: Reflector.critique *)

MaxCitations == 2

freshness_buffer_days == 2

CitedTypes == {"twitter", "reddit", "news", "arxiv"}

\* (now - citation.published_at).days of an aware datetime
AgeDays == {7, 8, 10, 12, 13, 16, 17}

\* citation.published_at: None, a datetime without tzinfo (fromisoformat of
\* a text without offset), or an aware datetime of some age.
PublishedAt ==
    {[kind |-> "none", age |-> 0], [kind |-> "naive", age |-> 0]}
    \cup {[kind |-> "aware", age |-> a] : a \in AgeDays}

Citations == [source_type : CitedTypes, published_at : PublishedAt]

FreshnessLimit(source_type) ==
    IF source_type \in {"twitter", "reddit"} THEN 5
    ELSE IF source_type = "news" THEN 10
    ELSE 14

IsStale(citation) ==
    citation.published_at.age > FreshnessLimit(citation.source_type) + freshness_buffer_days

\* stale_counts[citation.source_type] += 1, a Counter keeping insertion order
Increment(counts, source_type) ==
    IF \E i \in 1..Len(counts) : counts[i].source_type = source_type
    THEN [i \in 1..Len(counts) |->
            IF counts[i].source_type = source_type
            THEN [counts[i] EXCEPT !.count = @ + 1]
            ELSE counts[i]]
    ELSE Append(counts, [source_type |-> source_type, count |-> 1])

RECURSIVE StaleCounts(_, _)
StaleCounts(cited, counts) ==
    IF cited = <<>> THEN counts
    ELSE LET citation == Head(cited) IN
         StaleCounts(Tail(cited),
                     IF citation.published_at.kind # "none" /\ IsStale(citation)
                     THEN Increment(counts, citation.source_type)
                     ELSE counts)

FreshnessDelta(entry) ==
    [type |-> "query_rewrite", helpful |-> entry.count,
     tags |-> <<entry.source_type, "fresh">>]

CheckFreshness(cited) ==
    LET counts == StaleCounts(cited, <<>>) IN
    [i \in 1..Len(counts) |-> FreshnessDelta(counts[i])]

CheckValidation(missing_citation) ==
    IF missing_citation
    THEN << [type |-> "validation_rule", helpful |-> 1,
             tags |-> <<"validation", "citations">>] >>
    ELSE <<>>

CheckSourceCoverage(missing) ==
    [i \in 1..Len(missing) |->
        [type |-> "query_rewrite", helpful |-> 1,
         tags |-> <<missing[i], "coverage">>]]

\* now - citation.published_at raises TypeError for a datetime without tzinfo
FreshnessRaises(cited) ==
    \E i \in 1..Len(cited) : cited[i].published_at.kind = "naive"

ReflectIdle ==
    /\ r_pc = "off"
    /\ metadata = [citations |-> <<>>, missing_citation |-> FALSE, missing |-> <<>>]
    /\ r_deltas = <<>>

\* critique(metadata) is called with the metadata of a run: its citations,
\* whether the validator reported a missing citation, and the expected
\* source types the search results lack (in their iteration order).
ReflectInit ==
    /\ r_pc = "critique"
    /\ metadata \in [citations : SeqsUpTo(Citations, MaxCitations),
                     missing_citation : BOOLEAN,
                     missing : {<<>>, <<"twitter">>}]
    /\ r_deltas = <<>>

Critique ==
    /\ r_pc = "critique"
    /\ ~FreshnessRaises(metadata.citations)
    /\ r_deltas' = CheckValidation(metadata.missing_citation)
                   \o CheckFreshness(metadata.citations)
                   \o CheckSourceCoverage(metadata.missing)
    /\ r_pc' = "returned"
    /\ UNCHANGED metadata
    /\ ReflectOnly

CritiqueRaises ==
    /\ r_pc = "critique"
    /\ FreshnessRaises(metadata.citations)
    /\ r_pc' = "raised"
    /\ UNCHANGED <<metadata, r_deltas>>
    /\ ReflectOnly

--------------------------------------------------------------------------
(* ace/curator.py: two Curator.merge calls of two runs on one store *)

MaxWriterBatch == 2

Writers == {1, 2}

Other(w) == 3 - w

WritersIdle ==
    /\ w_pc = [w \in Writers |-> "off"]
    /\ w_existing = [w \in Writers |-> <<>>]
    /\ w_count = [w \in Writers |-> 0]
    /\ w_store = <<>>
    /\ w_overlap = FALSE

\* Two runs, each about to call merge with a non-empty list of deltas, on a
\* newly created store.
WritersInit ==
    /\ w_pc = [w \in Writers |-> "idle"]
    /\ w_existing = [w \in Writers |-> <<>>]
    /\ w_count = [w \in Writers |-> 0]
    /\ w_store = <<>>
    /\ w_overlap = FALSE

\* existing = self.store.list_items()
WriterBegin(w) ==
    /\ w_pc[w] = "idle"
    /\ w_pc' = [w_pc EXCEPT ![w] = "merging"]
    /\ w_existing' = [w_existing EXCEPT ![w] = ListItems(w_store)]
    /\ w_overlap' = (w_overlap \/ w_pc[Other(w)] = "merging")
    /\ UNCHANGED <<w_count, w_store>>
    /\ WritersOnly

\* One iteration of "for delta in deltas" of the call w: upsert_item opens
\* its own connection and commits.
WriterMergeDelta(w, item) ==
    /\ w_pc[w] = "merging"
    /\ w_count[w] < MaxWriterBatch
    /\ w_count' = [w_count EXCEPT ![w] = @ + 1]
    /\ IF IsDuplicate(item, w_existing[w])
       THEN UNCHANGED <<w_store, w_existing>>
       ELSE /\ w_store' = Upsert(w_store, item)
            /\ w_existing' = [w_existing EXCEPT ![w] = LocalView(@, item)]
    /\ UNCHANGED <<w_pc, w_overlap>>
    /\ WritersOnly

\* return merged
WriterReturn(w) ==
    /\ w_pc[w] = "merging"
    /\ w_count[w] >= 1
    /\ w_pc' = [w_pc EXCEPT ![w] = "returned"]
    /\ w_existing' = [w_existing EXCEPT ![w] = <<>>]
    /\ UNCHANGED <<w_count, w_store, w_overlap>>
    /\ WritersOnly

WriterBegins == \E w \in Writers : WriterBegin(w)

WriterMergesDelta ==
    \E w \in Writers, item \in PlaybookItem(TwiceContents) : WriterMergeDelta(w, item)

WriterReturns == \E w \in Writers : WriterReturn(w)

--------------------------------------------------------------------------
(* app/api.py: answer requests served concurrently by one event loop *)

Requests == {1, 2}

\* The stages of Pipeline.run that await a collaborator, in statement order;
\* chunking, ranking and validation run without an await.
AwaitedStages == <<"PLAN", "SEARCH", "ACQUIRE", "SYNTHESIZE">>

\* A mutation of YieldsAt: the coroutine can be suspended after every step.
YieldsAtEveryStep(pc) == TRUE

\* Where a request's coroutine gives the event loop to the others: at an
\* await of the pipeline, and when the handler has returned or raised.
YieldsAt(pc) == pc \in Range(AwaitedStages) \cup {"responded"}

\* A mutation of AfterGenerator: the exception of the run is swallowed.
AfterGeneratorSwallowing(raised) == "critique"

\* try: answer, metadata = await generator.answer(request)
\* except Exception: raise HTTPException(status_code=500)
AfterGenerator(raised) == IF raised THEN "responded" ELSE "critique"

\* The orders in which a loop over a set of source types can visit it.
TypeLists ==
    {<<>>} \cup {<<t>> : t \in ReflectedTypes}
           \cup {pair \in ReflectedTypes \X ReflectedTypes : pair[1] # pair[2]}

\* The items of one kind ("freshness" or "coverage") for a list of types.
\* Every delta of a kind and type carries the same id here: a second one is
\* rejected for its content whatever id it draws.
DeltasFor(kind, types) ==
    [i \in 1..Len(types) |->
        CHOOSE item \in ReflectorItems :
            item.id = kind \o ":" \o types[i] \o ":" \o "a1b2c3"]

\* Reflector.critique: the freshness deltas, one per stale source type, then
\* the coverage deltas, one per missing source type.
CritiqueDeltas ==
    {DeltasFor("freshness", stale) \o DeltasFor("coverage", missing)
        : stale \in TypeLists, missing \in TypeLists}

\* No response yet; the response of HTTPException(status_code=500) and of
\* an exception the framework answers for.
NoResponse == [deltas_proposed |-> <<"none">>, deltas_merged |-> <<"none">>]

Http500 == [deltas_proposed |-> <<"http_500">>, deltas_merged |-> <<"http_500">>]

NoLocals == [r \in Requests |-> <<>>]

EventLoopIdle ==
    /\ q_pc = [r \in Requests |-> "off"]
    /\ q_running = 0
    /\ q_store = <<>>
    /\ q_deltas = NoLocals
    /\ q_existing = NoLocals
    /\ q_merged = NoLocals
    /\ q_done = [r \in Requests |-> 0]
    /\ q_calls = NoLocals
    /\ q_run = [r \in Requests |-> "off"]
    /\ q_response = [r \in Requests |-> NoResponse]

\* Two requests have arrived; each handler has called generator.answer and
\* is suspended at the first await of the run; the store is new.
EventLoopInit ==
    /\ q_pc = [r \in Requests |-> "PLAN"]
    /\ q_running = 0
    /\ q_store = <<>>
    /\ q_deltas = NoLocals
    /\ q_existing = NoLocals
    /\ q_merged = NoLocals
    /\ q_done = [r \in Requests |-> 0]
    /\ q_calls = [r \in Requests |-> <<"generator.answer">>]
    /\ q_run = [r \in Requests |-> "running"]
    /\ q_response = [r \in Requests |-> NoResponse]

\* The event loop runs request r when no other request holds it, and r
\* keeps it until it reaches a point where it yields.
Step(r, pc) ==
    /\ q_running \in {0, r}
    /\ q_pc' = [q_pc EXCEPT ![r] = pc]
    /\ q_running' = IF YieldsAt(pc) THEN 0 ELSE r

\* The awaited collaborator call of a stage returns: the run goes on to its
\* next await, or returns (answer, metadata) to answer, which goes on.
AwaitReturns ==
    \E r \in Requests, i \in 1..Len(AwaitedStages) :
        /\ q_pc[r] = AwaitedStages[i]
        /\ Step(r, IF i < Len(AwaitedStages) THEN AwaitedStages[i + 1]
                   ELSE AfterGenerator(FALSE))
        /\ q_run' = [q_run EXCEPT ![r] =
                        IF i < Len(AwaitedStages) THEN @ ELSE "returned"]
        /\ UNCHANGED <<q_store, q_deltas, q_existing, q_merged, q_done,
                       q_calls, q_response>>
        /\ EventLoopOnly

\* A stage raises: run and generator.answer have no handler, answer has.
AwaitRaises ==
    \E r \in Requests :
        /\ q_pc[r] \in Range(AwaitedStages)
        /\ Step(r, AfterGenerator(TRUE))
        /\ q_response' = [q_response EXCEPT ![r] =
                             IF AfterGenerator(TRUE) = "responded"
                             THEN Http500 ELSE @]
        /\ q_run' = [q_run EXCEPT ![r] = "raised"]
        /\ UNCHANGED <<q_store, q_deltas, q_existing, q_merged, q_done, q_calls>>
        /\ EventLoopOnly

\* deltas = reflector.critique(metadata)
LoopCritique ==
    \E r \in Requests, deltas \in CritiqueDeltas :
        /\ q_pc[r] = "critique"
        /\ Step(r, "merge")
        /\ q_deltas' = [q_deltas EXCEPT ![r] = deltas]
        /\ q_calls' = [q_calls EXCEPT ![r] = Append(@, "reflector.critique")]
        /\ UNCHANGED <<q_store, q_existing, q_merged, q_done, q_run, q_response>>
        /\ EventLoopOnly

\* reflector.critique raises (a publish date without timezone), outside the
\* try block.
LoopCritiqueRaises ==
    \E r \in Requests :
        /\ q_pc[r] = "critique"
        /\ Step(r, "responded")
        /\ q_calls' = [q_calls EXCEPT ![r] = Append(@, "reflector.critique")]
        /\ q_response' = [q_response EXCEPT ![r] = Http500]
        /\ UNCHANGED <<q_store, q_deltas, q_existing, q_merged, q_done, q_run>>
        /\ EventLoopOnly

\* merged = curator.merge(deltas): existing = self.store.list_items()
\* (with no delta, merge returns [] before it reads the store).
LoopMergeBegin ==
    \E r \in Requests :
        /\ q_pc[r] = "merge"
        /\ Step(r, "merging")
        /\ q_existing' = [q_existing EXCEPT ![r] =
                             IF q_deltas[r] = <<>> THEN <<>> ELSE ListItems(q_store)]
        /\ q_calls' = [q_calls EXCEPT ![r] = Append(@, "curator.merge")]
        /\ UNCHANGED <<q_store, q_deltas, q_merged, q_done, q_run, q_response>>
        /\ EventLoopOnly

\* One iteration of "for delta in deltas".
LoopMergeDelta ==
    \E r \in Requests :
        /\ q_pc[r] = "merging"
        /\ q_done[r] < Len(q_deltas[r])
        /\ Step(r, "merging")
        /\ LET item == q_deltas[r][q_done[r] + 1]
           IN  IF IsDuplicate(item, q_existing[r])
               THEN UNCHANGED <<q_store, q_merged, q_existing>>
               ELSE /\ q_store' = Upsert(q_store, item)
                    /\ q_merged' = [q_merged EXCEPT ![r] = Append(@, item)]
                    /\ q_existing' = [q_existing EXCEPT ![r] = LocalView(@, item)]
        /\ q_done' = [q_done EXCEPT ![r] = @ + 1]
        /\ UNCHANGED <<q_deltas, q_calls, q_run, q_response>>
        /\ EventLoopOnly

\* merge returns merged; answer.metadata["ace"] = {"deltas_proposed": ...,
\* "deltas_merged": ...}; return answer.
LoopMergeReturn ==
    \E r \in Requests :
        /\ q_pc[r] = "merging"
        /\ q_done[r] = Len(q_deltas[r])
        /\ Step(r, "responded")
        /\ q_response' = [q_response EXCEPT ![r] =
               [deltas_proposed |-> [i \in 1..Len(q_deltas[r]) |-> q_deltas[r][i].id],
                deltas_merged |-> [i \in 1..Len(q_merged[r]) |-> q_merged[r][i].id]]]
        /\ q_deltas' = [q_deltas EXCEPT ![r] = <<>>]
        /\ q_existing' = [q_existing EXCEPT ![r] = <<>>]
        /\ q_merged' = [q_merged EXCEPT ![r] = <<>>]
        /\ q_done' = [q_done EXCEPT ![r] = 0]
        /\ UNCHANGED <<q_store, q_calls, q_run>>
        /\ EventLoopOnly

\* The next request on the connection: answer calls generator.answer, which
\* reads the hints and awaits the run.
RequestArrives ==
    \E r \in Requests :
        /\ q_pc[r] = "responded"
        /\ Step(r, AwaitedStages[1])
        /\ q_calls' = [q_calls EXCEPT ![r] = <<"generator.answer">>]
        /\ q_run' = [q_run EXCEPT ![r] = "running"]
        /\ q_response' = [q_response EXCEPT ![r] = NoResponse]
        /\ UNCHANGED <<q_store, q_deltas, q_existing, q_merged, q_done>>
        /\ EventLoopOnly

--------------------------------------------------------------------------
(* Specifications *)

InitSearch ==
    /\ SearchInit
    /\ CuratorIdle
    /\ SynthIdle
    /\ ValidateIdle
    /\ PipelineIdle
    /\ AcquireIdle
    /\ ApiIdle
    /\ ReflectIdle
    /\ RankIdle
    /\ PlaybookIdle
    /\ PlannerIdle
    /\ WritersIdle
    /\ EventLoopIdle

NextSearch ==
    \/ ProviderResult
    \/ ProviderRaises
    \/ SearchReturn

SpecSearch == InitSearch /\ [][NextSearch]_vars

InitCurator ==
    /\ SearchIdle
    /\ CuratorInit
    /\ SynthIdle
    /\ ValidateIdle
    /\ PipelineIdle
    /\ AcquireIdle
    /\ ApiIdle
    /\ ReflectIdle
    /\ RankIdle
    /\ PlaybookIdle
    /\ PlannerIdle
    /\ WritersIdle
    /\ EventLoopIdle

NextCurator ==
    \/ MergeNothing
    \/ MergeBegin
    \/ MergeGeneralDelta
    \/ MergeReturn

SpecCurator == InitCurator /\ [][NextCurator]_vars

NextCuratorTwice ==
    \/ MergeNothing
    \/ MergeBegin
    \/ MergeTwiceDelta
    \/ MergeReturnRemember

SpecCuratorTwice == InitCurator /\ [][NextCuratorTwice]_vars

InitCuratorExample ==
    /\ SearchIdle
    /\ CuratorExampleInit
    /\ SynthIdle
    /\ ValidateIdle
    /\ PipelineIdle
    /\ AcquireIdle
    /\ ApiIdle
    /\ ReflectIdle
    /\ RankIdle
    /\ PlaybookIdle
    /\ PlannerIdle
    /\ WritersIdle
    /\ EventLoopIdle

NextCuratorExample ==
    \/ MergeNothing
    \/ MergeBegin
    \/ MergeExampleDelta
    \/ MergeReturn

SpecCuratorExample == InitCuratorExample /\ [][NextCuratorExample]_vars

InitSynth ==
    /\ SearchIdle
    /\ CuratorIdle
    /\ SynthInit
    /\ ValidateIdle
    /\ PipelineIdle
    /\ AcquireIdle
    /\ ApiIdle
    /\ ReflectIdle
    /\ RankIdle
    /\ PlaybookIdle
    /\ PlannerIdle
    /\ WritersIdle
    /\ EventLoopIdle

NextSynth ==
    \/ SynthNoChunks
    \/ SynthBuild
    \/ SynthInitialSummary
    \/ SynthChainOfDensity
    \/ SynthGenerateRaises
    \/ SynthFinish
    \/ Validate

SpecSynth == InitSynth /\ [][NextSynth]_vars

InitValidate ==
    /\ SearchIdle
    /\ CuratorIdle
    /\ SynthIdle
    /\ ValidateInit
    /\ PipelineIdle
    /\ AcquireIdle
    /\ ApiIdle
    /\ ReflectIdle
    /\ RankIdle
    /\ PlaybookIdle
    /\ PlannerIdle
    /\ WritersIdle
    /\ EventLoopIdle

NextValidate ==
    \/ Validate

SpecValidate == InitValidate /\ [][NextValidate]_vars

InitPipeline ==
    /\ SearchIdle
    /\ CuratorIdle
    /\ SynthIdle
    /\ ValidateIdle
    /\ PipelineInit
    /\ AcquireIdle
    /\ ApiIdle
    /\ ReflectIdle
    /\ RankIdle
    /\ PlaybookIdle
    /\ PlannerIdle
    /\ WritersIdle
    /\ EventLoopIdle

NextPipeline ==
    \/ StagePlan
    \/ StageSearch
    \/ StageAcquire
    \/ StageChunk
    \/ StageRank
    \/ StageSynthesize
    \/ StageValidate
    \/ StageRaises

SpecPipeline == InitPipeline /\ [][NextPipeline]_vars

InitAcquire ==
    /\ SearchIdle
    /\ CuratorIdle
    /\ SynthIdle
    /\ ValidateIdle
    /\ PipelineIdle
    /\ AcquireInit
    /\ ApiIdle
    /\ ReflectIdle
    /\ RankIdle
    /\ PlaybookIdle
    /\ PlannerIdle
    /\ WritersIdle
    /\ EventLoopIdle

NextAcquire ==
    \/ FetchAttempts
    \/ BackoffOver
    \/ CollectDocument
    \/ AcquireReturn

SpecAcquire == InitAcquire /\ [][NextAcquire]_vars

InitApi ==
    /\ SearchIdle
    /\ CuratorIdle
    /\ SynthIdle
    /\ ValidateIdle
    /\ PipelineInit
    /\ AcquireIdle
    /\ ApiInit
    /\ ReflectIdle
    /\ RankIdle
    /\ PlaybookIdle
    /\ PlannerIdle
    /\ WritersIdle
    /\ EventLoopIdle

NextApi ==
    \/ StagePlan
    \/ StageSearch
    \/ StageAcquire
    \/ StageChunk
    \/ StageRank
    \/ StageSynthesize
    \/ StageValidate
    \/ StageRaises
    \/ AnswerGenerated
    \/ AnswerGeneratorRaised
    \/ AnswerCritique
    \/ AnswerCritiqueRaises
    \/ AnswerMerge
    \/ AnswerMergeRaises

SpecApi == InitApi /\ [][NextApi]_vars

InitSynthOffline ==
    /\ SearchIdle
    /\ CuratorIdle
    /\ SynthOfflineInit
    /\ ValidateIdle
    /\ PipelineIdle
    /\ AcquireIdle
    /\ ApiIdle
    /\ ReflectIdle
    /\ RankIdle
    /\ PlaybookIdle
    /\ PlannerIdle
    /\ WritersIdle
    /\ EventLoopIdle

NextSynthOffline ==
    \/ SynthNoChunks
    \/ SynthBuild
    \/ SynthInitialSummary
    \/ SynthChainOfDensityEcho
    \/ SynthFinish
    \/ Validate

SpecSynthOffline == InitSynthOffline /\ [][NextSynthOffline]_vars

InitReflect ==
    /\ SearchIdle
    /\ CuratorIdle
    /\ SynthIdle
    /\ ValidateIdle
    /\ PipelineIdle
    /\ AcquireIdle
    /\ ApiIdle
    /\ ReflectInit
    /\ RankIdle
    /\ PlaybookIdle
    /\ PlannerIdle
    /\ WritersIdle
    /\ EventLoopIdle

NextReflect ==
    \/ Critique
    \/ CritiqueRaises

SpecReflect == InitReflect /\ [][NextReflect]_vars

InitRank ==
    /\ SearchIdle
    /\ CuratorIdle
    /\ SynthIdle
    /\ ValidateIdle
    /\ PipelineIdle
    /\ AcquireIdle
    /\ ApiIdle
    /\ ReflectIdle
    /\ RankInit
    /\ PlaybookIdle
    /\ PlannerIdle
    /\ WritersIdle
    /\ EventLoopIdle

NextRank ==
    \/ RankEmpty
    \/ Rank

SpecRank == InitRank /\ [][NextRank]_vars

InitPlaybook ==
    /\ SearchIdle
    /\ CuratorIdle
    /\ SynthIdle
    /\ ValidateIdle
    /\ PipelineIdle
    /\ AcquireIdle
    /\ ApiIdle
    /\ ReflectIdle
    /\ RankIdle
    /\ PlaybookInit
    /\ PlannerIdle
    /\ WritersIdle
    /\ EventLoopIdle

NextPlaybook ==
    \/ ApplyPlaybookReturns

SpecPlaybook == InitPlaybook /\ [][NextPlaybook]_vars

InitPlanner ==
    /\ SearchIdle
    /\ CuratorIdle
    /\ SynthIdle
    /\ ValidateIdle
    /\ PipelineIdle
    /\ AcquireIdle
    /\ ApiIdle
    /\ ReflectIdle
    /\ RankIdle
    /\ PlaybookIdle
    /\ PlannerInit
    /\ WritersIdle
    /\ EventLoopIdle

NextPlanner ==
    \/ Plans

SpecPlanner == InitPlanner /\ [][NextPlanner]_vars

InitWriters ==
    /\ SearchIdle
    /\ CuratorIdle
    /\ SynthIdle
    /\ ValidateIdle
    /\ PipelineIdle
    /\ AcquireIdle
    /\ ApiIdle
    /\ ReflectIdle
    /\ RankIdle
    /\ PlaybookIdle
    /\ PlannerIdle
    /\ WritersInit
    /\ EventLoopIdle

NextWriters ==
    \/ WriterBegins
    \/ WriterMergesDelta
    \/ WriterReturns

SpecWriters == InitWriters /\ [][NextWriters]_vars

InitSynthFallback ==
    /\ SearchIdle
    /\ CuratorIdle
    /\ SynthFallbackInit
    /\ ValidateIdle
    /\ PipelineIdle
    /\ AcquireIdle
    /\ ApiIdle
    /\ ReflectIdle
    /\ RankIdle
    /\ PlaybookIdle
    /\ PlannerIdle
    /\ WritersIdle
    /\ EventLoopIdle

NextSynthFallback ==
    \/ SynthNoChunks
    \/ SynthBuild
    \/ SynthInitialSummary
    \/ SynthChainOfDensityNoBullets
    \/ SynthFinish
    \/ Validate

SpecSynthFallback == InitSynthFallback /\ [][NextSynthFallback]_vars

InitParse ==
    /\ SearchIdle
    /\ CuratorIdle
    /\ SynthParseInit
    /\ ValidateIdle
    /\ PipelineIdle
    /\ AcquireIdle
    /\ ApiIdle
    /\ ReflectIdle
    /\ RankIdle
    /\ PlaybookIdle
    /\ PlannerIdle
    /\ WritersIdle
    /\ EventLoopIdle

NextParse ==
    \/ SynthFinish
    \/ Validate

SpecParse == InitParse /\ [][NextParse]_vars

NextCuratorCounted ==
    \/ MergeNothing
    \/ MergeBegin
    \/ MergeCountedDelta
    \/ MergeReturn

SpecCuratorCounted == InitCurator /\ [][NextCuratorCounted]_vars

NextCuratorReflector ==
    \/ MergeNothing
    \/ MergeBegin
    \/ MergeReflectorDelta
    \/ MergeReturn

SpecCuratorReflector == InitCurator /\ [][NextCuratorReflector]_vars

InitPlaybookReflector ==
    /\ SearchIdle
    /\ CuratorIdle
    /\ SynthIdle
    /\ ValidateIdle
    /\ PipelineIdle
    /\ AcquireIdle
    /\ ApiIdle
    /\ ReflectIdle
    /\ RankIdle
    /\ PlaybookReflectorInit
    /\ PlannerIdle
    /\ WritersIdle
    /\ EventLoopIdle

NextPlaybookReflector ==
    \/ ApplyPlaybookReturns

SpecPlaybookReflector == InitPlaybookReflector /\ [][NextPlaybookReflector]_vars

InitEventLoop ==
    /\ SearchIdle
    /\ CuratorIdle
    /\ SynthIdle
    /\ ValidateIdle
    /\ PipelineIdle
    /\ AcquireIdle
    /\ ApiIdle
    /\ ReflectIdle
    /\ RankIdle
    /\ PlaybookIdle
    /\ PlannerIdle
    /\ WritersIdle
    /\ EventLoopInit

NextEventLoop ==
    \/ AwaitReturns
    \/ AwaitRaises
    \/ LoopCritique
    \/ LoopCritiqueRaises
    \/ LoopMergeBegin
    \/ LoopMergeDelta
    \/ LoopMergeReturn
    \/ RequestArrives

SpecEventLoop == InitEventLoop /\ [][NextEventLoop]_vars

--------------------------------------------------------------------------
(* Claims about the search aggregator *)

TypesOf(results) == {results[i].source_type : i \in 1..Len(results)}

ProvidedUrls == {u \in Urls : max_provided[u] >= 0}

\* C2: after batch_search (dedupe on) the returned list holds each URL at
\* most once, and the result returned for a URL carries the maximum score
\* among all provider results that had that URL.
C2_UniqueUrlMaxScore ==
    s_pc = "returned" =>
        /\ \A i, j \in 1..Len(search_out) :
              search_out[i].url = search_out[j].url => i = j
        /\ \A i \in 1..Len(search_out) :
              search_out[i].score = max_provided[search_out[i].url]

\* A URL the provider returned more than once is in the returned list, which
\* the diversity selection cut to top_k.
C2_Witness ==
    /\ s_pc = "returned"
    /\ Len(seen_urls) > top_k
    /\ \E i \in 1..Len(search_out) :
          /\ search_out[i].url \in replaced_urls
          /\ search_out[i].score > 0

\* C3: when the deduplicated candidates span N >= K source types, the first
\* min(N, K) results have pairwise different source types.
C3_DiverseFirstPicks ==
    (s_pc = "returned" /\ Cardinality(TypesOf(seen_urls)) >= top_k) =>
        LET m == Min(Cardinality(TypesOf(seen_urls)), top_k) IN
        /\ Len(search_out) >= m
        /\ \A i, j \in 1..m :
              search_out[i].source_type = search_out[j].source_type => i = j

\* More candidates than K, N >= K >= 2 types, and the best two scores belong
\* to one source type: the diversity pass, not the score, decided.
C3_Witness ==
    /\ s_pc = "returned"
    /\ top_k >= 2
    /\ Len(seen_urls) > top_k
    /\ Cardinality(TypesOf(seen_urls)) >= top_k
    /\ \E i, j \in 1..Len(seen_urls) :
          /\ i # j
          /\ seen_urls[i].source_type = seen_urls[j].source_type
          /\ \A h \in 1..Len(seen_urls) :
                seen_urls[h].source_type # seen_urls[i].source_type =>
                    /\ seen_urls[h].score < seen_urls[i].score
                    /\ seen_urls[h].score < seen_urls[j].score

\* C4: the returned list has exactly min(A, K) results, A being the number
\* of distinct URLs the provider returned.
C4_ReturnsMinAvailableK ==
    s_pc = "returned" =>
        Len(search_out) = Min(Cardinality(ProvidedUrls), top_k)

\* More URLs than K, fewer source types than K: a second pass was needed.
C4_Witness ==
    /\ s_pc = "returned"
    /\ Cardinality(ProvidedUrls) > top_k
    /\ Cardinality(TypesOf(seen_urls)) < top_k
    /\ Len(search_out) = top_k

--------------------------------------------------------------------------
(* Claims about the synthesizer and the validator *)

CitedLabels(ans) ==
    UNION {Range(ans.bullets[i].citations) : i \in 1..Len(ans.bullets)}

UnknownIssues(rep) ==
    {j \in 1..Len(rep.issues) : rep.issues[j].message = "unknown citations"}

\* C1, as stated: every answer synthesize returns, parsed or fallback, cites
\* only labels of its sources, and validate_answer reports no "unknown
\* citations" issue for it.
C1_EveryAnswerCitesKnownLabels ==
    /\ y_pc = "done" => CitedLabels(answer) \subseteq KnownLabels(answer)
    /\ (y_pc = "done" /\ v_pc = "validated") => UnknownIssues(report) = {}

\* C1, amended: every answer synthesize builds on the fallback path has at
\* least one bullet, every bullet cites at least one label and only labels of
\* the answer's sources, and validate_answer reports no issue for it and full
\* coverage.
C1_FallbackCitesKnownLabels ==
    (y_pc = "done" /\ used_fallback) =>
        /\ answer.bullets # <<>>
        /\ \A i \in 1..Len(answer.bullets) :
              /\ answer.bullets[i].citations # <<>>
              /\ Range(answer.bullets[i].citations) \subseteq KnownLabels(answer)
        /\ v_pc = "validated" =>
              /\ report.issues = <<>>
              /\ report.coverage.num = report.coverage.den
              /\ report.passed

\* A validated fallback answer of two bullets over chunks that repeat a url.
C1_Witness ==
    /\ y_pc = "done"
    /\ used_fallback
    /\ v_pc = "validated"
    /\ Len(answer.bullets) >= 2
    /\ Len(chunk_list) > Len(citations)

Covered(ans, i) ==
    /\ ans.bullets[i].citations # <<>>
    /\ Range(ans.bullets[i].citations) \subseteq KnownLabels(ans)

CoveredCount(ans) == Cardinality({i \in 1..Len(ans.bullets) : Covered(ans, i)})

IssuesFor(rep, idx) ==
    {j \in 1..Len(rep.issues) : rep.issues[j].bullet_index = idx}

\* C5: validate_answer always returns; its coverage is c / max(n, 1) for n
\* bullets of which c have a citation and only citations that are source
\* labels; coverage is in [0, 1]; passed holds exactly when coverage >= 0.95;
\* each bullet not counted in c has exactly one issue, an error, and the
\* others none; no bullet gives coverage 0 and passed false.
C5_CoverageAndPassed ==
    /\ v_pc = "ready" => ENABLED Validate
    /\ v_pc = "validated" =>
          LET n == Len(answer.bullets)
              c == CoveredCount(answer)
          IN  /\ report.coverage.den > 0
              /\ report.coverage.num * Max(n, 1) = c * report.coverage.den
              /\ 0 <= report.coverage.num
              /\ report.coverage.num <= report.coverage.den
              /\ report.passed <=>
                    (report.coverage.num * 100 >= 95 * report.coverage.den)
              /\ \A i \in 1..n :
                    Cardinality(IssuesFor(report, i - 1)) =
                        IF Covered(answer, i) THEN 0 ELSE 1
              /\ \A j \in 1..Len(report.issues) :
                    /\ report.issues[j].severity = "error"
                    /\ report.issues[j].bullet_index \in 0..(n - 1)
              /\ n = 0 => (report.coverage.num = 0 /\ ~report.passed)

\* A report that passes with a bullet that is not covered.
C5_Witness ==
    /\ v_pc = "validated"
    /\ report.passed
    /\ report.coverage.num < report.coverage.den
    /\ UnknownIssues(report) # {}

--------------------------------------------------------------------------
(* Claims about the curator *)

\* The claim's relation between two items: the same id, or the same type and
\* a Jaccard similarity of the lower-cased word sets above 0.8 (4/5).
Duplicates(a, b) ==
    \/ a.id = b.id
    \/ /\ a.type = b.type
       /\ 5 * Cardinality(TokenSet(a.content) \cap TokenSet(b.content))
            > 4 * Cardinality(TokenSet(a.content) \cup TokenSet(b.content))

\* The items the i-th delta of the call is compared with.
ViewBefore(i) ==
    Range(store0) \cup {log[j].item : j \in {k \in 1..(i - 1) : log[k].accepted}}

DuplicatesStored(i) == \E e \in Range(store0) : Duplicates(log[i].item, e)

AcceptedItems ==
    LET accepted == SelectSeq(log, LAMBDA entry : entry.accepted)
    IN  [i \in 1..Len(accepted) |-> accepted[i].item]

\* C6: merge rejects a delta exactly when an item of the store as the call
\* found it, or an item accepted earlier in the call, has its id, or its type
\* and a similarity above 0.8; every other delta is accepted, stored and
\* returned.
C6_RejectsExactlyDuplicates ==
    c_pc = "merging" =>
        \A i \in 1..Len(log) :
            /\ log[i].accepted <=>
                  ~ \E e \in ViewBefore(i) : Duplicates(log[i].item, e)
            /\ log[i].accepted =>
                  /\ log[i].item \in Range(store)
                  /\ log[i].item \in Range(merged)

\* A delta rejected for its content alone (no item has its id), and a delta
\* accepted with a similarity of exactly 4/5 to an item of its type.
C6_Witness ==
    /\ c_pc = "merging"
    /\ \E i \in 1..Len(log) :
          /\ ~log[i].accepted
          /\ \A e \in ViewBefore(i) : e.id # log[i].item.id
    /\ \E i \in 1..Len(log) :
          /\ log[i].accepted
          /\ \E e \in ViewBefore(i) :
                /\ e.type = log[i].item.type
                /\ LET sim == ContentSimilarity(e.content, log[i].item.content)
                   IN  sim.num * 5 = sim.den * 4

RowsWithId(rows, id) == {r \in 1..Len(rows) : rows[r].id = id}

\* C8, as stated: when a call is given a delta with an id the call before
\* was given too, the store holds exactly one item with that id, the call
\* accepts nothing for it and the stored item is the one the call found.
C8_SameIdTwiceOneItem ==
    c_pc = "merging" =>
        \A i \in 1..Len(log) :
            log[i].item.id \in prev =>
                /\ Cardinality(RowsWithId(store, log[i].item.id)) = 1
                /\ ~log[i].accepted
                /\ \A r \in RowsWithId(store, log[i].item.id) :
                      store[r] \in Range(store0)

\* C8, amended: when a call is given a delta with an id the call before was
\* given too, and that call accepted it or found the id stored (an item with
\* the id is stored when the second call begins), the store holds exactly
\* one item with that id, the call accepts nothing for it and the stored
\* item is the one the call found.
C8_StoredIdTwiceOneItem ==
    c_pc = "merging" =>
        \A i \in 1..Len(log) :
            (log[i].item.id \in prev /\ log[i].item.id \in IdsOf(store0)) =>
                /\ Cardinality(RowsWithId(store, log[i].item.id)) = 1
                /\ ~log[i].accepted
                /\ \A r \in RowsWithId(store, log[i].item.id) :
                      store[r] \in Range(store0)

\* The second call is given the stored item again, and another item with
\* its id.
C8_Witness ==
    /\ c_pc = "merging"
    /\ \E i \in 1..Len(log) :
          /\ log[i].item.id \in prev
          /\ log[i].item \in Range(store0)
    /\ \E i \in 1..Len(log) :
          /\ log[i].item.id \in prev
          /\ log[i].item.id \in IdsOf(store0)
          /\ log[i].item \notin Range(store0)

\* C9: with a query_rewrite item "Use sort:recent for huggingface models"
\* stored, merge rejects a query_rewrite delta "use sort: recent for
\* huggingface model".
C9_RejectsNearDuplicateExample ==
    c_pc = "merging" =>
        \A i \in 1..Len(log) :
            ( /\ log[i].item.type = "query_rewrite"
              /\ log[i].item.content = "use sort: recent for huggingface model"
              /\ \E e \in Range(store0) :
                    /\ e.type = "query_rewrite"
                    /\ e.content = "Use sort:recent for huggingface models" )
            => ~log[i].accepted

--------------------------------------------------------------------------
(* Claims about the pipeline *)

IsPrefix(s, t) == Len(s) <= Len(t) /\ \A i \in 1..Len(s) : s[i] = t[i]

\* C10: the stages a run has started are PLAN, SEARCH, ACQUIRE, CHUNK, RANK,
\* SYNTHESIZE, VALIDATE in this order, each once and only after the one
\* before it; the run is at the stage after the last one started, or over;
\* it is DONE only after all seven and then returns the answer and the
\* telemetry; when a stage raised it has FAILED and returns neither.
C10_StagesInOrder ==
    /\ IsPrefix(trace, Stages)
    /\ p_pc \in {"off", "DONE", "FAILED"}
          \/ (Len(trace) < Len(Stages) /\ p_pc = Stages[Len(trace) + 1])
    /\ p_pc = "DONE" =>
          /\ trace = Stages
          /\ run_result = [answer |-> "answer", telemetry |-> "telemetry"]
    /\ p_pc = "FAILED" =>
          /\ trace # <<>>
          /\ run_result.answer = "none"
          /\ run_result.telemetry = "none"
    /\ p_pc \notin {"DONE", "FAILED"} => run_result = NoResult

\* The ranking raised after PLAN, SEARCH, ACQUIRE and CHUNK completed.
C10_Witness ==
    /\ p_pc = "FAILED"
    /\ Len(trace) = 5
    /\ trace[5] = "RANK"

--------------------------------------------------------------------------
(* Claims about the acquisition of documents *)

DocumentsOf(i) == {k \in 1..Len(a_documents) : a_documents[k].result = i}

\* C11: whatever each fetch attempt gives (nothing, another status than 200,
\* a short content, no parse, a blank text, a document) and in whatever order
\* the concurrent fetches complete, _fetch_and_parse makes at most 2 attempts
\* per result and none after a success, always goes on to its return, and
\* returns exactly one document per search result: the fetched one after a
\* successful attempt, else, after 2 failed attempts, one whose text is the
\* snippet and whose metadata marks it a fallback with a reason.
C11_OneDocumentPerResult ==
    /\ \A i \in 1..Len(a_results) :
          /\ a_tasks[i].attempt <= 2
          /\ a_tasks[i].state \in {"ready", "sleeping"} => a_tasks[i].last # "ok"
    /\ a_pc = "running" => ENABLED NextAcquire
    /\ a_pc = "returned" =>
          /\ Len(a_documents) = Len(a_results)
          /\ \A i \in 1..Len(a_results) :
                /\ Cardinality(DocumentsOf(i)) = 1
                /\ a_tasks[i].attempt >= 1
                /\ \A k \in DocumentsOf(i) :
                      IF a_tasks[i].last = "ok"
                      THEN ~a_documents[k].doc.fallback
                      ELSE /\ a_tasks[i].attempt = 2
                           /\ a_documents[k].doc.text = a_results[i]
                           /\ a_documents[k].doc.fallback
                           /\ a_documents[k].doc.reason = "fetch_blocked_or_failed"

\* Two results: the second completes first, with the snippet after two
\* failures; the first is fetched at its second attempt.
C11_Witness ==
    /\ a_pc = "returned"
    /\ Len(a_results) = 2
    /\ a_documents[1].result = 2
    /\ a_documents[1].doc.fallback
    /\ ~a_documents[2].doc.fallback
    /\ a_tasks[1].attempt = 2

\* C12: every document ACQUIRE hands to CHUNK has text, so a run whose search
\* returned a result has a chunk after CHUNK and does not fail in SYNTHESIZE
\* for want of chunks.
C12_DownstreamAlwaysReceivesText ==
    /\ \A i \in 1..Len(documents) : documents[i]
    /\ (search_results > 0 /\ Len(trace) >= 4) => chunks > 0
    /\ ( /\ p_pc = "FAILED"
         /\ trace[Len(trace)] = "SYNTHESIZE"
         /\ ranked_chunks = 0 )
       => search_results = 0

--------------------------------------------------------------------------
(* Claims about failures of the collaborators *)

\* C13 (the Synthesizer's half): when the generation raises in either pass
\* of synthesize, synthesize catches it and returns fallback bullets; the
\* only exception that leaves synthesize is the one for no chunks.
C13_GenerationFailureCaught ==
    y_pc = "raised" => chunk_list = <<>>

\* C14: a request to the answer operation fails only when no chunk reached
\* the Synthesizer; no exception of the search provider, the fetcher, the
\* generation, embedding or rerank collaborator, or of the critique or the
\* merge after the run, makes the request fail. (A configuration error is
\* raised when the service starts, before any request.)
C14_OnlyEvidenceExhaustedFails ==
    api_response = "http_500" =>
        /\ api_raised = "generator.answer"
        /\ trace[Len(trace)] = "SYNTHESIZE"
        /\ ranked_chunks = 0

--------------------------------------------------------------------------
(* Claims about the offline mode *)

\* C15: with the EchoClient as generation collaborator, the answer
\* synthesize returns over the chunks of the stub results has a bullet and
\* validate_answer gives it the coverage 1.0.
C15_OfflineAnswerFullyCited ==
    (y_pc = "done" /\ v_pc = "validated") =>
        /\ answer.bullets # <<>>
        /\ report.coverage.num = report.coverage.den

--------------------------------------------------------------------------
(* Claims about the reflector *)

StaleOf(source_type) ==
    {i \in 1..Len(metadata.citations) :
        /\ metadata.citations[i].source_type = source_type
        /\ metadata.citations[i].published_at.kind = "aware"
        /\ IsStale(metadata.citations[i])}

FreshDeltasOf(source_type) ==
    {i \in 1..Len(r_deltas) : r_deltas[i].tags = <<source_type, "fresh">>}

\* C16: once critique is over, it has returned, and for every source type
\* its deltas hold exactly one freshness delta, with helpful the number of
\* stale citations, when the type has a stale citation (age over 5 + 2 for
\* twitter and reddit, 10 + 2 for news, 14 + 2 otherwise) and none when not.
C16_OneFreshnessDeltaPerStaleType ==
    r_pc \notin {"off", "critique"} =>
        /\ r_pc = "returned"
        /\ \A t \in CitedTypes :
              IF StaleOf(t) = {}
              THEN FreshDeltasOf(t) = {}
              ELSE /\ Cardinality(FreshDeltasOf(t)) = 1
                   /\ \A i \in FreshDeltasOf(t) :
                         r_deltas[i].helpful = Cardinality(StaleOf(t))

\* The same for a critique that returned.
C16_ReturnedFreshnessDeltas ==
    r_pc = "returned" =>
        \A t \in CitedTypes :
            IF StaleOf(t) = {}
            THEN FreshDeltasOf(t) = {}
            ELSE /\ Cardinality(FreshDeltasOf(t)) = 1
                 /\ \A i \in FreshDeltasOf(t) :
                       r_deltas[i].helpful = Cardinality(StaleOf(t))

--------------------------------------------------------------------------
(* Claims about the retriever *)

\* The stage-A score of the chunk id in the list scored, as a set.
StageAScoreOf(id) ==
    {scored[i].key : i \in {j \in 1..Len(scored) : scored[j].val.id = id}}

\* C17: when rank returns on a retriever without embedding and rerank
\* model, the stage-A score of every chunk is its lexical overlap with the
\* query and the returned chunks are in non-increasing order of it.
C17_LexicalFallbackRanking ==
    (k_pc = "returned" /\ ~retriever.embedder /\ ~retriever.reranker) =>
        /\ \A i \in 1..Len(chunks_list) :
              StageAScoreOf(i) \subseteq {LexicalScore(query, chunks_list[i])}
        /\ \A i, j \in 1..Len(top_chunks) :
              i < j => LexicalScore(query, top_chunks[i])
                          >= LexicalScore(query, top_chunks[j])

\* The final score of a chunk of the input.
FinalScore(chunk) ==
    IF retriever.reranker THEN chunk.rerank
    ELSE IF retriever.embedder THEN chunk.embed ELSE 0

\* C18: rank called with top_k >= 1 returns min(top_k, n) chunks, each a
\* chunk of the input and no chunk twice, in non-increasing order of their
\* score fields, which hold the rerank score, or the stage-A score without
\* rerank model; with no chunk it returns none.
C18_RankReturnsTopK ==
    (k_pc = "returned" /\ rank_top_k >= 1) =>
        /\ Len(top_chunks) = Min(rank_top_k, Len(chunks_list))
        /\ \A i \in 1..Len(top_chunks) :
              /\ top_chunks[i].id \in 1..Len(chunks_list)
              /\ top_chunks[i] =
                    [chunks_list[top_chunks[i].id] EXCEPT
                        !.score = FinalScore(chunks_list[top_chunks[i].id])]
              /\ ~retriever.reranker => StageAScoreOf(top_chunks[i].id) = {top_chunks[i].score}
        /\ \A i, j \in 1..Len(top_chunks) :
              i < j => /\ top_chunks[i].id # top_chunks[j].id
                       /\ top_chunks[i].score >= top_chunks[j].score
        /\ chunks_list = <<>> => top_chunks = <<>>

C18_Witness ==
    /\ k_pc = "returned"
    /\ Len(chunks_list) = 3
    /\ rank_top_k = 2
    /\ retriever.reranker
    /\ Len(top_chunks) = 2
    /\ top_chunks[1].id = 3
    /\ top_chunks[1].score = 1
    /\ top_chunks[2].score = 0

--------------------------------------------------------------------------
(* Claims about the planner *)

\* C19: two invocations of plan with the same question, hints, sources
\* configuration and sub-tasks, in two process runs, return the same steps,
\* the search queries of every step in the same order.
C19_PlanDeterministic ==
    (\A p \in Processes : pl_pc[p] = "returned") => plan_steps[1] = plan_steps[2]

\* Two invocations in process runs that iterate over sets in the same
\* order return the same steps.
C19_SameOrderSameSteps ==
    ((\A p \in Processes : pl_pc[p] = "returned") /\ hash_order[1] = hash_order[2])
        => plan_steps[1] = plan_steps[2]

\* A hint with a trigger that occurs in the task or the question and no
\* namespace or one that matches the source type, or a hint with a
\* namespace for the source type and no trigger.
HintApplies(hint, task, question, source_type) ==
    /\ hint.arrow
    /\ hint.rewrite # ""
    /\ \/ /\ hint.trigger # ""
          /\ hint.trigger \in task.triggers \cup question.triggers
          /\ hint.source_filter # "" => SourceMatches(hint.source_filter, source_type)
       \/ /\ hint.trigger = ""
          /\ hint.source_filter # ""
          /\ SourceMatches(hint.source_filter, source_type)

FirstApplying(hint_list, task, question, source_type) ==
    {i \in 1..Len(hint_list) :
        /\ HintApplies(hint_list[i], task, question, source_type)
        /\ \A j \in 1..(i - 1) : ~HintApplies(hint_list[j], task, question, source_type)}

\* C20: the rewrite _apply_playbook returns is the rewrite of the first
\* hint, in the order of the list, whose trigger occurs in the task or the
\* question and whose namespace, if any, matches the source type, or that
\* has a namespace for the source type and no trigger; it is None when the
\* list has no such hint.
C20_FirstMatchingHintApplies ==
    ap_pc = "returned" =>
        LET first == FirstApplying(ap_args.playbook_hints, ap_args.task,
                                   ap_args.question, ap_args.source_type)
        IN  IF first = {} THEN ap_rewrite = "none"
            ELSE \A i \in first : ap_rewrite = ap_args.playbook_hints[i].rewrite

\* The hints with a trigger that occurs neither in the task nor in the
\* question, without alias of the source type in their text: for lists of
\* such hints and hints without a trigger or with a matching one, the
\* rewrite is the first one whose namespace, if any, matches.
C20_WithoutAliasInHint ==
    (/\ ap_pc = "returned"
     /\ \A i \in 1..Len(ap_args.playbook_hints) :
           LET hint == ap_args.playbook_hints[i] IN
           /\ SourceAliases(ap_args.source_type) \cap hint.words # {}
                 => hint.trigger = "" \/ hint.trigger \in ap_args.task.triggers \cup ap_args.question.triggers
           /\ hint.trigger = "" => hint.source_filter # "") =>
        LET first == FirstApplying(ap_args.playbook_hints, ap_args.task,
                                   ap_args.question, ap_args.source_type)
        IN  IF first = {} THEN ap_rewrite = "none"
            ELSE \A i \in first : ap_rewrite = ap_args.playbook_hints[i].rewrite

--------------------------------------------------------------------------
(* Claims about the diversity selection *)

ScoresOf(results) == [i \in 1..Len(results) |-> results[i].score]

\* The number of results of source type st among the first n of results.
RECURSIVE CountOfType(_, _, _)
CountOfType(results, st, n) ==
    IF n = 0 THEN 0
    ELSE CountOfType(results, st, n - 1)
         + (IF results[n].source_type = st THEN 1 ELSE 0)

\* The pass in which search_out[i] was popped: its rank within its type.
PassOf(i) == CountOfType(search_out, search_out[i].source_type, i)

--------------------------------------------------------------------------
(* Claims about the heuristic store *)

\* Two rows with different ids, the same type and a similarity over 0.8.
NearDuplicates(rows) ==
    \E i, j \in 1..Len(rows) :
        /\ rows[i].id # rows[j].id
        /\ rows[i].type = rows[j].type
        /\ ExceedsThreshold(ContentSimilarity(rows[i].content, rows[j].content))

\* C22: the store of two merge calls holds two near-duplicate items only
\* when the calls overlapped: one read the existing items while the other
\* was between its read and its return. (That such a store is reached is
\* C22_Witness.)
C22_NearDuplicatesOnlyWhenInterleaved ==
    NearDuplicates(w_store) => w_overlap

\* Both calls read the empty store before either upserted, both accepted a
\* delta, and the two rows of the store are near-duplicates.
C22_Witness ==
    /\ w_overlap
    /\ \A w \in Writers : w_pc[w] = "returned" /\ w_count[w] = 1
    /\ Len(w_store) = 2
    /\ NearDuplicates(w_store)
    /\ w_store[1].content # w_store[2].content

--------------------------------------------------------------------------
(* Claims about the synthesizer *)

\* The positions of chunk_list that hold the first chunk of their url.
FirstChunks ==
    {p \in 1..Len(chunk_list) : \A q \in 1..(p - 1) : chunk_list[q] # chunk_list[p]}

\* The position of the i-th of them.
FirstChunk(i) ==
    CHOOSE p \in FirstChunks : Cardinality({q \in FirstChunks : q <= p}) = i

\* C23: a fallback answer over chunks of D distinct urls has min(D, 7)
\* bullets, at least 1 and at most 7; its i-th bullet cites exactly the
\* label of the source whose url is that of the i-th chunk with a new url.
C23_FallbackBulletsPerUrl ==
    (y_pc = "done" /\ used_fallback) =>
        LET D == Cardinality(Range(chunk_list))
            n == Len(answer.bullets)
        IN  /\ n = Min(D, 7)
            /\ n >= 1
            /\ n <= 7
            /\ \A i \in 1..n :
                  /\ Len(answer.bullets[i].citations) = 1
                  /\ \E k \in 1..Len(answer.sources) :
                        /\ answer.sources[k].label = answer.bullets[i].citations[1]
                        /\ answer.sources[k].url = chunk_list[FirstChunk(i)]

\* Eight chunks of eight urls: the loop stopped at the seventh bullet.
C23_Witness ==
    /\ y_pc = "done"
    /\ used_fallback
    /\ Cardinality(Range(chunk_list)) = 8
    /\ Len(answer.bullets) = 7

\* Chunks of two urls, the first url twice: two bullets, below the minimum
\* of three.
C23_WitnessFew ==
    /\ y_pc = "done"
    /\ used_fallback
    /\ chunk_list = <<1, 1, 2>>
    /\ Len(answer.bullets) = 2

\* The positions of refined before its first "sources" line.
BeforeSources ==
    {p \in 1..Len(refined) : \A q \in 1..p : refined[q].kind # "sources"}

MarkerLines == {p \in BeforeSources : refined[p].kind = "marker"}

\* The non-bullet line that seeds the first bullet: the first line longer
\* than 20 characters and not ending with ":", when no marker line precedes.
SeedLines ==
    {p \in BeforeSources :
        /\ refined[p].kind = "long"
        /\ \A q \in 1..(p - 1) : refined[q].kind \notin {"marker", "long"}}

BulletStarts == MarkerLines \cup SeedLines

\* The position where the i-th bullet starts.
BulletStart(i) ==
    CHOOSE p \in BulletStarts : Cardinality({q \in BulletStarts : q <= p}) = i

\* The lines of the bullet that starts at p: p and the lines after it up to
\* the next start or the "sources" line.
LinesOfBullet(p) ==
    {q \in BeforeSources : q >= p /\ \A r \in BulletStarts : r > p => q < r}

RECURSIVE CitesOfLines(_, _)
CitesOfLines(positions, from) ==
    IF from > Len(refined) THEN <<>>
    ELSE (IF from \in positions THEN refined[from].cites ELSE <<>>)
         \o CitesOfLines(positions, from + 1)

C25_StoreHasNoDuplicates ==
    \A i, j \in 1..Len(store) :
        i # j => /\ store[i].id # store[j].id
                 /\ ~ ( /\ store[i].type = store[j].type
                        /\ 5 * Cardinality(TokenSet(store[i].content) \cap TokenSet(store[j].content))
                             > 4 * Cardinality(TokenSet(store[i].content) \cup TokenSet(store[j].content)) )

\* After a merge call, two stored items of one type with a similarity of
\* exactly 4/5, and the next call is given a near-duplicate of one of them.
C25_Witness ==
    /\ c_pc = "merging"
    /\ Len(store0) = 2
    /\ store0[1].type = store0[2].type
    /\ ContentSimilarity(store0[1].content, store0[2].content) = [num |-> 4, den |-> 5]
    /\ \E i \in 1..Len(log) :
          /\ ~log[i].accepted
          /\ log[i].item.content \notin {store0[1].content, store0[2].content}

\* C26: a merge call only adds: at every point of the call the store is the
\* store the call found, every row unchanged and in place, followed by
\* exactly the items accepted so far; a rejected delta changes no row.
C26_MergeOnlyAdds ==
    c_pc = "merging" => store = store0 \o merged

\* A call that found a stored item, accepted one delta and rejected a delta
\* with the stored item's id and another helpful counter.
C26_Witness ==
    /\ c_pc = "merging"
    /\ Len(store0) = 1
    /\ Len(merged) = 1
    /\ \E i \in 1..Len(log) :
          /\ ~log[i].accepted
          /\ log[i].item.id = store0[1].id
          /\ log[i].item.helpful # store0[1].helpful

FreshnessContents == {FreshnessContent(t) : t \in ReflectedTypes}

CoverageContents == {CoverageContent(t) : t \in ReflectedTypes}

IsFreshness(item) == item.content \in FreshnessContents

IsCoverage(item) == item.content \in CoverageContents

FreshnessSimilarity ==
    ContentSimilarity(FreshnessContent("arxiv"), FreshnessContent("news"))

CoverageSimilarity ==
    ContentSimilarity(CoverageContent("arxiv"), CoverageContent("news"))

\* C27: the freshness contents of two source types have similarity 12/14 and
\* the coverage contents 13/17; the store never holds two freshness items,
\* a freshness delta is accepted only when no freshness item was stored or
\* accepted before it, and a coverage delta is rejected only when a coverage
\* item of its source type or with its id was stored or accepted before it.
C27_OneFreshnessItemStored ==
    /\ FreshnessSimilarity = [num |-> 12, den |-> 14]
    /\ CoverageSimilarity = [num |-> 13, den |-> 17]
    /\ Cardinality({i \in 1..Len(store) : IsFreshness(store[i])}) <= 1
    /\ c_pc = "merging" =>
          \A i \in 1..Len(log) :
             LET view == ViewBefore(i)
                 item == log[i].item
             IN  /\ (IsFreshness(item) /\ log[i].accepted)
                        => \A seen \in view : ~IsFreshness(seen)
                 /\ (IsCoverage(item) /\ ~log[i].accepted)
                        => \E seen \in view :
                              \/ seen.id = item.id
                              \/ seen.content = item.content

\* A later call finds the freshness item of one type stored, rejects the
\* freshness delta of the other type and accepts the coverage deltas of both.
C27_Witness ==
    /\ c_pc = "merging"
    /\ Len(store0) = 1
    /\ store0[1].content = FreshnessContent("arxiv")
    /\ Len(log) = 3
    /\ log[1].item.content = FreshnessContent("news")
    /\ ~log[1].accepted
    /\ log[2].item.content = CoverageContent("arxiv")
    /\ log[2].accepted
    /\ log[3].item.content = CoverageContent("news")
    /\ log[3].accepted
    /\ Len(store) = 3

\* C28: no content of a Reflector item holds "=>", and _apply_playbook
\* returns None whenever every hint is the content of a Reflector item.
C28_ReflectorHintsNeverRewrite ==
    /\ \A content \in ReflectorContents : ~Contains(content, "=>")
    /\ ap_pc = "returned" => ap_rewrite = "none"

\* A call that returned with two Reflector hints, one of which holds an
\* alias of the step's source type.
C28_Witness ==
    /\ ap_pc = "returned"
    /\ Len(ap_args.playbook_hints) = 2
    /\ \E i \in 1..2 :
          ap_args.playbook_hints[i].words \cap SourceAliases(ap_args.source_type) # {}
    /\ ap_args.task.triggers # {}

RECURSIVE IsSubsequence(_, _)
IsSubsequence(a, b) ==
    IF a = <<>> THEN TRUE
    ELSE IF b = <<>> THEN FALSE
    ELSE IF Head(a) = Head(b) THEN IsSubsequence(Tail(a), Tail(b))
    ELSE IsSubsequence(a, Tail(b))

AnswerCalls == <<"generator.answer", "reflector.critique", "curator.merge">>

C29_Calls ==
    \A r \in Requests :
        /\ IsPrefix(q_calls[r], AnswerCalls)
        /\ q_run[r] = "raised" =>
              /\ q_calls[r] = <<"generator.answer">>
              /\ q_pc[r] = "responded"
              /\ q_response[r] = Http500
        /\ Len(q_calls[r]) > 1 => q_run[r] = "returned"
        /\ IsSubsequence(q_response[r].deltas_merged, q_response[r].deltas_proposed)

C29_FailingStep ==
    \A r \in Requests :
        (q_run[r] # "raised" /\ q_run'[r] = "raised") => q_store' = q_store

\* C29: a request whose run raised has called neither critique nor merge, is
\* answered with the error, and the step in which the run fails leaves the
\* store as it is; critique is called only after the run returned and merge
\* only after critique; the merged ids of a response are a subsequence of
\* its proposed ids.
C29_FailedRunSkipsCritiqueAndMerge ==
    []C29_Calls /\ [][C29_FailingStep]_vars

\* One request was answered with two proposed deltas of which the second
\* alone was merged; the run of the other failed while the store held items.
C29_Witness ==
    /\ Len(q_response[1].deltas_proposed) = 2
    /\ q_response[1].deltas_merged = <<q_response[1].deltas_proposed[2]>>
    /\ q_calls[1] = AnswerCalls
    /\ q_run[2] = "raised"
    /\ q_store # <<>>

InCritiqueOrMerge(r) == q_pc[r] \in {"critique", "merge", "merging"}

\* C30: while a request is between its return from the run and the return
\* of its merge call, every other request is suspended at an await of its
\* run or has been answered, and the store holds no two items with one id
\* and no two items of one type with a similarity over 0.8.
C30_MergesNeverInterleave ==
    /\ \A r \in Requests : InCritiqueOrMerge(r) =>
          /\ q_running = r
          /\ \A s \in Requests \ {r} :
                 q_pc[s] \in Range(AwaitedStages) \cup {"responded"}
    /\ ~NearDuplicates(q_store)
    /\ \A i, j \in 1..Len(q_store) : i # j => q_store[i].id # q_store[j].id

\* The runs of both requests were under way together; the first request's
\* merge call then rejected a delta for an item the second had stored
\* while the second, on its next request, is suspended in its run.
C30_Witness ==
    /\ q_pc[1] = "merging"
    /\ q_done[1] = 2
    /\ Len(q_merged[1]) = 1
    /\ Len(q_store) = 3
    /\ q_pc[2] = "ACQUIRE"

==========================================================================
